---- MODULE Spec2Model ----
(***************************************************************************)
(* Chargedrops: the public map page (src/src/PublicMapPage.tsx) and the    *)
(* admin venue forms (src/unnamed/part_001), modelled as state machines.   *)
(*                                                                         *)
(* A React component is modelled as its useState cells plus the closures   *)
(* of the requests it has in flight.  One action is one event handler or   *)
(* one completion of an awaited call, followed by the re-render it causes  *)
(* (useMemo recomputation) and the effects whose dependencies changed.     *)
(***************************************************************************)
EXTENDS Integers, Sequences, FiniteSets, TLC

(***************************************************************************)
(* Bounds                                                                  *)
(***************************************************************************)
\* number of route changes /map/:citySlug explored after the first mount
MaxNav == 1
\* number of place-details requests that may be in flight at one time
MaxLive == 2
\* number of station rows a form may hold
MaxRows == 2
\* number of batch commits that may be awaited at one time
MaxPending == 1
\* number of saves started in a session
MaxSaves == 1
\* number of browser history entries kept below the current one
MaxHistory == 3

(***************************************************************************)
(* Values                                                                  *)
(***************************************************************************)
\* JavaScript null for object-valued state
Null == [null |-> TRUE]
\* JavaScript null for string-valued state (selectedId, error messages)
NullId == "null"
\* JavaScript undefined for a numeric field
Undef == -1
\* a venue document without place_id
NoPlace == "undefined"

\* ---- storage fixtures read by the public page --------------------------
\* slugs a visitor may navigate to; "b" has venues but no city document
CitySlugs == {"a", "b"}

\* the cities collection: slug -> raw document (its mapZoom is absent)
CityDocs ==
  [s \in {"a"} |-> [slug |-> s, sponsorName |-> "Acme", mapZoom |-> Undef,
                     mapCenter |-> "center"]]

\* the venues collection, in sortOrder; ratings are tenths of a star
VenueDocs ==
  << [id |-> "v1", citySlug |-> "a", active |-> TRUE,  place_id |-> "p1",
      rating |-> 40, user_ratings_total |-> 7],
     [id |-> "v2", citySlug |-> "a", active |-> TRUE,  place_id |-> "p2",
      rating |-> 30, user_ratings_total |-> 2],
     [id |-> "v5", citySlug |-> "a", active |-> FALSE, place_id |-> NoPlace,
      rating |-> 0, user_ratings_total |-> 0],
     [id |-> "v3", citySlug |-> "b", active |-> TRUE,  place_id |-> NoPlace,
      rating |-> 0, user_ratings_total |-> 0],
     [id |-> "v4", citySlug |-> "b", active |-> TRUE,  place_id |-> "p4",
      rating |-> 20, user_ratings_total |-> 1] >>

VenueIds == {VenueDocs[i].id : i \in DOMAIN VenueDocs}

\* results the places service may hand to the getDetails callback
LiveDetails ==
  { [open_now |-> "true",      rating |-> 45,    user_ratings_total |-> 12],
    [open_now |-> "false",     rating |-> 0,     user_ratings_total |-> Undef],
    [open_now |-> "undefined", rating |-> Undef, user_ratings_total |-> Undef] }

ErrCityNotFound == "City configuration not found."
ErrCityLoad     == "Unable to load city configuration."
ErrVenuesLoad   == "Unable to load locations right now."

(***************************************************************************)
(* State of PublicMapPage                                                  *)
(***************************************************************************)
VARIABLES
  citySlug,        \* params.citySlug
  city,            \* useCity: city
  loadingCity,     \* useCity: loading
  cityError,       \* useCity: error
  cityReqs,        \* useCity: getDocs calls in flight, with their `cancelled`
  venues,          \* useVenues: venues
  loadingVenues,   \* useVenues: loading
  venueError,      \* useVenues: error
  venueReqs,       \* useVenues: getDocs calls in flight, with their `cancelled`
  selectedId,      \* PublicMapPage: selectedId
  selectedVenue,   \* PublicMapPage: value held by the useMemo
  liveVenueData,   \* PublicMapPage: liveVenueData
  loadingLive,     \* PublicMapPage: loadingLive
  isLoaded,        \* useJsApiLoader: isLoaded
  liveReqs,        \* getDetails calls in flight: venue id -> number of calls
  navCount,        \* number of route changes so far
  liveFor,         \* history: id of the venue whose request filled liveVenueData
  lastEvent        \* history: the stale or failed load the last step handled, if any

mapVars ==
  <<citySlug, city, loadingCity, cityError, cityReqs, venues, loadingVenues,
    venueError, venueReqs, selectedId, selectedVenue, liveVenueData,
    loadingLive, isLoaded, liveReqs, navCount, liveFor,
    lastEvent>>


(***************************************************************************)
(* State of the admin dashboard (storage and the venue forms)              *)
(***************************************************************************)
VARIABLES
  stationsDB,      \* stations collection: id -> Assigned
  venuesDB,        \* venues collection: id -> document
  selectedVenueId, \* AdminDashboardPage: selectedVenueId
  isAddingVenue,   \* AdminDashboardPage: isAddingVenue
  venue,           \* EditVenueView: venue
  loadingVenue,    \* EditVenueView: loading
  stations,        \* form: stations offered by the select
  venueStations,   \* form: venueStations
  saving,          \* form: saving
  selectedPlace,   \* AddVenueView: selectedPlace
  fetching,        \* form: reads in flight
  pendingSaves,    \* batches whose commit() is awaited
  newCount,        \* number of venue ids handed out by doc(collection(...))
  saveCount,       \* number of batches staged so far
  loadedIds,       \* history: station ids of the venue document as fetched
  lastAlert,       \* the last alert() shown
  lastSave         \* history: the batch whose commit completed last, if no
                   \* step of the venue forms followed it

adminVars ==
  <<stationsDB, venuesDB, selectedVenueId, isAddingVenue, venue, loadingVenue,
    stations, venueStations, saving, selectedPlace, fetching, pendingSaves,
    newCount, saveCount, loadedIds, lastAlert, lastSave>>

\* the form state cells, reset when a form mounts or unmounts
formVars ==
  <<venue, loadingVenue, stations, venueStations, saving, selectedPlace,
    fetching, loadedIds>>

(***************************************************************************)
(* State of the AddVenueView of src/src/AdminDashboardPage.tsx that the    *)
(* forms above do not have                                                 *)
(***************************************************************************)
VARIABLES
  selectedStations \* AddVenueView: selectedStations

dashVars == <<selectedStations>>

(***************************************************************************)
(* State of the admin dashboard: the top-level view and the city forms     *)
(***************************************************************************)
VARIABLES
  view,             \* AdminDashboardPage: view
  selectedCityId,   \* AdminDashboardPage: selectedCityId
  isAddingCity,     \* AdminDashboardPage: isAddingCity
  citiesDB,         \* cities collection: id -> document
  cityForm,         \* EditCityView: city
  loadingCityForm,  \* EditCityView: loading
  savingCity,       \* EditCityView: saving
  cityFetching,     \* EditCityView: fetchCity in flight
  pendingCitySaves, \* updateDoc calls that are awaited
  citySaveCount,    \* number of city saves started so far
  lastCityAlert,    \* the last alert() a city form showed
  lastCitySave      \* history: the city save that completed last, if no
                    \* step of the city forms followed it

cityVars ==
  <<view, selectedCityId, isAddingCity, citiesDB, cityForm, loadingCityForm,
    savingCity, cityFetching, pendingCitySaves, citySaveCount, lastCityAlert,
    lastCitySave>>

(***************************************************************************)
(* State of the autocomplete searches of the admin forms                   *)
(***************************************************************************)
VARIABLES
  searchQuery,       \* AddVenueView: searchQuery
  searchResults,     \* AddVenueView: searchResults
  newCityName,       \* AddCityView: newCity.displayName
  citySearchQuery,   \* AddCityView: searchQuery
  citySearchResults, \* AddCityView: searchResults
  citySearchStatus,  \* AddCityView: searchStatus
  newCityMapCenter,  \* AddCityView: mapCenter
  timers,            \* setTimeout handlers that are pending
  placeReqs,         \* getPlacePredictions calls whose callback is pending
  searchCount,       \* number of getPlacePredictions calls issued so far
  burst,             \* history: per form, calls issued since its query changed
  typed,             \* history: per form, query changes since a timer expired
  lastResponse       \* history: the response delivered last, if no step of
                     \* the searches followed it

searchVars ==
  <<searchQuery, searchResults, newCityName, citySearchQuery,
    citySearchResults, citySearchStatus, newCityMapCenter, timers, placeReqs,
    searchCount, burst, typed, lastResponse>>

(***************************************************************************)
(* State of the router (App) and of the authentication collaborator        *)
(***************************************************************************)
VARIABLES
  location,        \* the current path, as its sequence of segments
  history,         \* the browser history entries below the current one
  session          \* the auth service holds a signed-in user

routeVars == <<location, history, session>>

(***************************************************************************)
(* Inputs and results of the pure functions of the pages                   *)
(***************************************************************************)
VARIABLES
  input,           \* the value a function is applied to
  output           \* its result, Null before it is applied

pureVars == <<input, output>>

(***************************************************************************)
(* State of MapView: the props it is rendered with, its refs, and the      *)
(* call it made on the map object in the last step                         *)
(***************************************************************************)
VARIABLES
  propVenues,        \* props.venues
  propSelectedId,    \* the parent's selectedId, from which selectedVenue derives
  propSelectedVenue, \* props.selectedVenue
  propCityCenter,    \* props.cityCenter
  propIsLoaded,      \* props.isLoaded
  mapRef,            \* mapRef.current holds the map instance
  initialLoadRef,    \* initialLoadRef.current
  mapCall            \* history: panTo / fitBounds called in the last step

mapViewVars ==
  <<propVenues, propSelectedId, propSelectedVenue, propCityCenter,
    propIsLoaded, mapRef, initialLoadRef, mapCall>>

\* everything outside the public map page / the admin dashboard / the router
nonMapVars ==
  <<adminVars, dashVars, cityVars, searchVars, routeVars, pureVars, mapViewVars>>
\* everything outside the admin venue forms and the searches
nonAdminSearchVars ==
  <<mapVars, dashVars, cityVars, routeVars, pureVars, mapViewVars>>
nonAdminVars == <<nonAdminSearchVars, searchVars>>
nonRouteVars ==
  <<mapVars, adminVars, dashVars, cityVars, searchVars, pureVars, mapViewVars>>
nonPureVars ==
  <<mapVars, adminVars, dashVars, cityVars, searchVars, routeVars, mapViewVars>>
nonMapViewVars ==
  <<mapVars, adminVars, dashVars, cityVars, searchVars, routeVars, pureVars>>
\* everything outside the admin dashboard in either version of the page
nonDashVars == <<mapVars, searchVars, routeVars, pureVars, mapViewVars>>
\* everything outside the top-level view, the city forms and the searches
nonCitySearchVars ==
  <<mapVars, adminVars, dashVars, routeVars, pureVars, mapViewVars>>
nonCityVars == <<nonCitySearchVars, searchVars>>

vars ==
  <<mapVars, adminVars, dashVars, cityVars, searchVars, routeVars, pureVars,
    mapViewVars>>

(***************************************************************************)
(* useCity / useVenues                                                     *)
(***************************************************************************)
\* where("slug", "==", citySlug): the matching documents
QueryCity(slug) == IF slug \in DOMAIN CityDocs THEN <<CityDocs[slug]>> ELSE <<>>

\* the City value stored by setCity
NormalizeCity(data, slug) ==
  [slug        |-> data.slug,
   sponsorName |-> data.sponsorName,
   mapCenter   |-> data.mapCenter,
   mapZoom     |-> IF data.mapZoom # Undef THEN data.mapZoom ELSE 13]

\* where citySlug == slug and active == true, orderBy sortOrder
QueryVenues(slug) ==
  SelectSeq(VenueDocs, LAMBDA d : d.citySlug = slug /\ d.active)

\* the Venue object built by snapshot.docs.map; `gen` stands for the identity
\* of the object: every load creates objects distinct from the ones held
NormalizeVenue(d, gen) ==
  [id |-> d.id, place_id |-> d.place_id, citySlug |-> d.citySlug,
   rating |-> d.rating, user_ratings_total |-> d.user_ratings_total,
   gen |-> gen]

NormalizeVenues(docs, gen) ==
  [i \in DOMAIN docs |-> NormalizeVenue(docs[i], gen)]

\* `if (cancelled) return;` after the await, with the guard left out
IsStale_Never(r) == FALSE

\* `if (cancelled) return;` after the await
IsStale(r) == r.cancelled

\* the cleanup function of an effect: cancelled = true in its closure
Cancel(reqs) == {[r EXCEPT !.cancelled = TRUE] : r \in reqs}

(***************************************************************************)
(* PublicMapPage: derived selection and the live-data effect               *)
(***************************************************************************)
RECURSIVE FindFrom(_, _, _)
FindFrom(vs, sid, i) ==
  IF i > Len(vs) THEN Null
  ELSE IF vs[i].id = sid THEN vs[i]
  ELSE FindFrom(vs, sid, i + 1)

\* venues.find((v) => v.id === selectedId) ?? null
Find(vs, sid) == FindFrom(vs, sid, 1)

\* useMemo with the dependency list [selectedId] instead of [venues, selectedId]
selectedVenueMemo_StaleDeps(prev, oldVenues, oldSel, vs, sid) ==
  IF sid = oldSel THEN prev ELSE Find(vs, sid)

\* useMemo(() => find, [venues, selectedId])
selectedVenueMemo(prev, oldVenues, oldSel, vs, sid) ==
  IF vs = oldVenues /\ sid = oldSel THEN prev ELSE Find(vs, sid)

\* the branch of the live-data effect that issues a getDetails call
IssuesLive(sv, il) == sv # Null /\ sv.place_id # NoPlace /\ il

\* number of getDetails calls in flight
RECURSIVE SumOver(_, _)
SumOver(f, S) ==
  IF S = {} THEN 0
  ELSE LET x == CHOOSE y \in S : TRUE IN f[x] + SumOver(f, S \ {x})

InFlight(reqs) == SumOver(reqs, DOMAIN reqs)

\* objects of a new load are distinct from the objects of the list held
FreshGen(vs) == IF vs = <<>> THEN 0 ELSE 1 - vs[1].gen

\* A re-render with the new state cells vs, sid, il, followed by the live-data
\* effect when one of its dependencies [selectedVenue, isLoaded] changed.
Render(vs, sid, il) ==
  LET sv  == selectedVenueMemo(selectedVenue, venues, selectedId, vs, sid)
      run == sv # selectedVenue \/ il # isLoaded
  IN /\ venues' = vs
     /\ selectedId' = sid
     /\ isLoaded' = il
     /\ selectedVenue' = sv
     /\ IF run /\ IssuesLive(sv, il)
          THEN /\ InFlight(liveReqs) < MaxLive
               /\ loadingLive' = TRUE
               /\ liveReqs' = [liveReqs EXCEPT ![sv.id] = @ + 1]
               /\ UNCHANGED <<liveVenueData, liveFor>>
          ELSE IF run
          THEN /\ liveVenueData' = Null
               /\ liveFor' = NullId
               /\ UNCHANGED <<loadingLive, liveReqs>>
          ELSE UNCHANGED <<liveVenueData, liveFor, loadingLive, liveReqs>>

(***************************************************************************)
(* Initial state: first mount at /map/:citySlug, effects already run       *)
(***************************************************************************)
MapInit ==
  /\ citySlug = "a"
  /\ city = Null
  /\ loadingCity = TRUE
  /\ cityError = NullId
  /\ cityReqs = {[slug |-> citySlug, cancelled |-> FALSE]}
  /\ venues = <<>>
  /\ loadingVenues = TRUE
  /\ venueError = NullId
  /\ venueReqs = {[slug |-> citySlug, cancelled |-> FALSE]}
  /\ selectedId = NullId
  /\ selectedVenue = Null
  /\ liveVenueData = Null
  /\ loadingLive = FALSE
  /\ isLoaded = FALSE
  /\ liveReqs = [v \in VenueIds |-> 0]
  /\ navCount = 0
  /\ liveFor = NullId
  /\ lastEvent = "other"

(***************************************************************************)
(* Actions of the public map page                                          *)
(***************************************************************************)
\* The route parameter changes: both effects clean up and run again.
Navigate(s) ==
  /\ UNCHANGED nonMapVars
  /\ lastEvent' = "other"
  /\ s # citySlug
  /\ navCount < MaxNav
  /\ navCount' = navCount + 1
  /\ citySlug' = s
  /\ cityReqs' = Cancel(cityReqs)
                   \cup {[slug |-> s, cancelled |-> FALSE]}
  /\ loadingCity' = TRUE
  /\ cityError' = NullId
  /\ venueReqs' = Cancel(venueReqs)
                   \cup {[slug |-> s, cancelled |-> FALSE]}
  /\ loadingVenues' = TRUE
  /\ venueError' = NullId
  /\ UNCHANGED <<city, venues, selectedId, selectedVenue, liveVenueData,
                 loadingLive, isLoaded, liveReqs, liveFor>>

\* loadCity: `await getDocs(q)` resolves
CityLoaded(r) ==
  /\ UNCHANGED nonMapVars
  /\ UNCHANGED navCount
  /\ lastEvent' = IF r.cancelled THEN "cityStale"
                  ELSE IF QueryCity(r.slug) = <<>> THEN "cityNotFound" ELSE "other"
  /\ r \in cityReqs
  /\ cityReqs' = cityReqs \ {r}
  /\ IF IsStale(r)
       THEN UNCHANGED <<city, cityError, loadingCity>>
       ELSE IF QueryCity(r.slug) = <<>>
       THEN /\ cityError' = ErrCityNotFound
            /\ loadingCity' = FALSE
            /\ UNCHANGED city
       ELSE /\ city' = NormalizeCity(QueryCity(r.slug)[1], r.slug)
            /\ loadingCity' = FALSE
            /\ UNCHANGED cityError
  /\ UNCHANGED <<citySlug, venues, loadingVenues, venueError, venueReqs,
                 selectedId, selectedVenue, liveVenueData, loadingLive,
                 isLoaded, liveReqs, liveFor>>

\* loadCity rejecting, with a finally block that calls setLoading(false)
\* without looking at `cancelled`
CityLoadFailed_AlwaysClears(r) ==
  /\ UNCHANGED nonMapVars
  /\ UNCHANGED navCount
  /\ lastEvent' = "cityFailed"
  /\ r \in cityReqs
  /\ cityReqs' = cityReqs \ {r}
  /\ cityError' = ErrCityLoad
  /\ loadingCity' = FALSE
  /\ UNCHANGED <<citySlug, city, venues, loadingVenues, venueError, venueReqs,
                 selectedId, selectedVenue, liveVenueData, loadingLive,
                 isLoaded, liveReqs, liveFor>>

\* loadCity: `await getDocs(q)` rejects
CityLoadFailed(r) ==
  /\ UNCHANGED nonMapVars
  /\ UNCHANGED navCount
  /\ lastEvent' = "cityFailed"
  /\ r \in cityReqs
  /\ cityReqs' = cityReqs \ {r}
  /\ cityError' = ErrCityLoad
  /\ loadingCity' = IF r.cancelled THEN loadingCity ELSE FALSE
  /\ UNCHANGED <<citySlug, city, venues, loadingVenues, venueError, venueReqs,
                 selectedId, selectedVenue, liveVenueData, loadingLive,
                 isLoaded, liveReqs, liveFor>>

\* loadVenues resolving, with the venue list stored only while no city error
\* is shown
VenuesLoaded_NeedsCity(r) ==
  /\ UNCHANGED nonMapVars
  /\ UNCHANGED navCount
  /\ lastEvent' = IF r.cancelled THEN "venuesStale" ELSE "other"
  /\ r \in venueReqs
  /\ venueReqs' = venueReqs \ {r}
  /\ IF IsStale(r) \/ cityError # NullId
       THEN /\ UNCHANGED <<venues, selectedId, selectedVenue, isLoaded,
                           liveVenueData, liveFor, loadingLive, liveReqs>>
            /\ loadingVenues' = IF IsStale(r) THEN loadingVenues ELSE FALSE
       ELSE /\ Render(NormalizeVenues(QueryVenues(r.slug), FreshGen(venues)),
                      selectedId, isLoaded)
            /\ loadingVenues' = FALSE
  /\ UNCHANGED <<citySlug, city, loadingCity, cityError, cityReqs, venueError>>

\* loadVenues resolving, followed by setSelectedId(items[0].id) (or null for
\* an empty list) as in the single-page App
VenuesLoaded_SelectsFirst(r) ==
  /\ UNCHANGED nonMapVars
  /\ UNCHANGED navCount
  /\ lastEvent' = IF r.cancelled THEN "venuesStale" ELSE "other"
  /\ r \in venueReqs
  /\ venueReqs' = venueReqs \ {r}
  /\ IF IsStale(r)
       THEN UNCHANGED <<venues, selectedId, selectedVenue, isLoaded,
                        liveVenueData, liveFor, loadingLive, liveReqs,
                        loadingVenues>>
       ELSE /\ LET items == NormalizeVenues(QueryVenues(r.slug), FreshGen(venues))
               IN Render(items, IF items # <<>> THEN items[1].id ELSE NullId,
                         isLoaded)
            /\ loadingVenues' = FALSE
  /\ UNCHANGED <<citySlug, city, loadingCity, cityError, cityReqs, venueError>>

\* loadVenues: `await getDocs(q)` resolves
VenuesLoaded(r) ==
  /\ UNCHANGED nonMapVars
  /\ UNCHANGED navCount
  /\ lastEvent' = IF r.cancelled THEN "venuesStale" ELSE "other"
  /\ r \in venueReqs
  /\ venueReqs' = venueReqs \ {r}
  /\ IF IsStale(r)
       THEN UNCHANGED <<venues, selectedId, selectedVenue, isLoaded,
                        liveVenueData, liveFor, loadingLive, liveReqs,
                        loadingVenues>>
       ELSE /\ Render(NormalizeVenues(QueryVenues(r.slug), FreshGen(venues)),
                      selectedId, isLoaded)
            /\ loadingVenues' = FALSE
  /\ UNCHANGED <<citySlug, city, loadingCity, cityError, cityReqs, venueError>>

\* loadVenues rejecting, with a catch block that also calls setVenues([])
VenuesLoadFailed_Clears(r) ==
  /\ UNCHANGED nonMapVars
  /\ UNCHANGED navCount
  /\ lastEvent' = "venuesFailed"
  /\ r \in venueReqs
  /\ venueReqs' = venueReqs \ {r}
  /\ venueError' = ErrVenuesLoad
  /\ loadingVenues' = IF r.cancelled THEN loadingVenues ELSE FALSE
  /\ Render(<<>>, selectedId, isLoaded)
  /\ UNCHANGED <<citySlug, city, loadingCity, cityError, cityReqs>>

\* loadVenues: `await getDocs(q)` rejects
VenuesLoadFailed(r) ==
  /\ UNCHANGED nonMapVars
  /\ UNCHANGED navCount
  /\ lastEvent' = "venuesFailed"
  /\ r \in venueReqs
  /\ venueReqs' = venueReqs \ {r}
  /\ venueError' = ErrVenuesLoad
  /\ loadingVenues' = IF r.cancelled THEN loadingVenues ELSE FALSE
  /\ UNCHANGED <<citySlug, city, loadingCity, cityError, cityReqs, venues,
                 selectedId, selectedVenue, liveVenueData, loadingLive,
                 isLoaded, liveReqs, liveFor>>

\* a venue card of the list is clicked (the list is hidden while selectedId is set)
ClickVenueCard(i) ==
  /\ UNCHANGED nonMapVars
  /\ UNCHANGED navCount
  /\ lastEvent' = "other"
  /\ selectedId = NullId
  /\ i \in DOMAIN venues
  /\ Render(venues, venues[i].id, isLoaded)
  /\ UNCHANGED <<citySlug, city, loadingCity, cityError, cityReqs,
                 loadingVenues, venueError, venueReqs>>

\* MapView renders the map: `if (!isLoaded || !cityCenter) return <div>Loading Map...</div>`
MapShown == isLoaded /\ city # Null /\ city.mapCenter # NullId

\* a venue marker of the map is clicked: e.stopPropagation(); onSelectVenue(venue.id)
ClickMarker(i) ==
  /\ UNCHANGED nonMapVars
  /\ UNCHANGED navCount
  /\ lastEvent' = "other"
  /\ MapShown
  /\ i \in DOMAIN venues
  /\ venues[i].id # selectedId
  /\ Render(venues, venues[i].id, isLoaded)
  /\ UNCHANGED <<citySlug, city, loadingCity, cityError, cityReqs,
                 loadingVenues, venueError, venueReqs>>

\* "Back to all locations" / close button of the detail panel
ClearSelection ==
  /\ UNCHANGED nonMapVars
  /\ UNCHANGED navCount
  /\ lastEvent' = "other"
  /\ selectedVenue # Null
  /\ Render(venues, NullId, isLoaded)
  /\ UNCHANGED <<citySlug, city, loadingCity, cityError, cityReqs,
                 loadingVenues, venueError, venueReqs>>

\* the map background is clicked: GoogleMap onClick={() => onSelectVenue(null)}
\* (setSelectedId(null) with nothing selected changes nothing)
ClickMapBackground ==
  /\ UNCHANGED nonMapVars
  /\ UNCHANGED navCount
  /\ lastEvent' = "other"
  /\ MapShown
  /\ selectedId # NullId
  /\ Render(venues, NullId, isLoaded)
  /\ UNCHANGED <<citySlug, city, loadingCity, cityError, cityReqs,
                 loadingVenues, venueError, venueReqs>>

\* the Google Maps script finishes loading
MapsScriptLoaded ==
  /\ UNCHANGED nonMapVars
  /\ UNCHANGED navCount
  /\ lastEvent' = "other"
  /\ ~isLoaded
  /\ Render(venues, selectedId, TRUE)
  /\ UNCHANGED <<citySlug, city, loadingCity, cityError, cityReqs,
                 loadingVenues, venueError, venueReqs>>

\* the getDetails callback fires with status OK and details d
LiveDetailsOk(v, d) ==
  /\ UNCHANGED nonMapVars
  /\ UNCHANGED navCount
  /\ lastEvent' = "other"
  /\ liveReqs[v] > 0
  /\ d \in LiveDetails
  /\ liveReqs' = [liveReqs EXCEPT ![v] = @ - 1]
  /\ liveVenueData' = d
  /\ liveFor' = v
  /\ loadingLive' = FALSE
  /\ UNCHANGED <<citySlug, city, loadingCity, cityError, cityReqs, venues,
                 loadingVenues, venueError, venueReqs, selectedId,
                 selectedVenue, isLoaded>>

\* the getDetails callback fires with a status other than OK
LiveDetailsNotOk(v) ==
  /\ UNCHANGED nonMapVars
  /\ UNCHANGED navCount
  /\ lastEvent' = "other"
  /\ liveReqs[v] > 0
  /\ liveReqs' = [liveReqs EXCEPT ![v] = @ - 1]
  /\ loadingLive' = FALSE
  /\ UNCHANGED <<citySlug, city, loadingCity, cityError, cityReqs, venues,
                 loadingVenues, venueError, venueReqs, selectedId,
                 selectedVenue, isLoaded, liveVenueData, liveFor>>

(***************************************************************************)
(* Admin dashboard: storage and the venue forms (EditVenueView,            *)
(* AddVenueView) shown under view === "venues"                             *)
(***************************************************************************)
\* documents of the stations collection
StationIds == {"s1", "s2"}
\* values typed into the "Station Location" input
Locations == {"", "door"}
\* venues present before the session, and ids the storage layer hands out
ExistingVenueIds == {"e1", "e2"}
NewVenueIds == <<"n1", "n2", "n3", "n4">>

\* { stationId: '', stationLocation: '' }; `shared` is the index of the
\* element of venue.stationDetails that is this very object (0: none)
BlankRow == [stationId |-> "", stationLocation |-> "", shared |-> 0]

AlertVenueUpdated == "Venue updated successfully!"
AlertUpdateFailed == "Failed to update venue."
AlertVenueAdded   == "Venue added successfully!"
AlertAddFailed    == "Failed to add venue."

\* ---- helpers ------------------------------------------------------------
\* rows as stored in a document: the two fields of VenueStation
StoredRows(rows) ==
  [i \in DOMAIN rows |->
     [stationId |-> rows[i].stationId, stationLocation |-> rows[i].stationLocation]]

\* venueStations.filter(vs => vs.stationId)
NonBlank(rows) == SelectSeq(rows, LAMBDA r : r.stationId # "")

\* rows.map(s => s.stationId) as a Set
IdsOf(rows) == {rows[i].stationId : i \in DOMAIN rows}

EditFormShown == view = "venues" /\ selectedVenueId # NullId
AddFormShown  == view = "venues" /\ isAddingVenue
ListShown     == view = "venues" /\ selectedVenueId = NullId /\ ~isAddingVenue

\* saves started so far, and commits awaited, by the forms of either kind
SavesStarted == saveCount + citySaveCount
SavesPending == Cardinality(pendingSaves) + Cardinality(pendingCitySaves)

\* the state of a form that is not mounted (and of one that has just mounted,
\* before its effects)
FormReset ==
  /\ venue' = Null
  /\ loadingVenue' = TRUE
  /\ stations' = {}
  /\ venueStations' = <<BlankRow>>
  /\ saving' = FALSE
  /\ selectedPlace' = Null
  /\ fetching' = {}
  /\ loadedIds' = {}

\* the closures of awaited commits whose form has been unmounted
Unmounted(saves) == {[b EXCEPT !.mounted = FALSE] : b \in saves}

AdminInit ==
  /\ stationsDB = [s \in StationIds |-> s = "s1"]
  /\ venuesDB = [v \in ExistingVenueIds |->
                   IF v = "e1"
                   THEN [stationDetails |-> <<[stationId |-> "s1", stationLocation |-> "door"]>>,
                         totalChargersAvailable |-> 1]
                   ELSE [stationDetails |-> <<>>, totalChargersAvailable |-> 0]]
  /\ selectedVenueId = NullId
  /\ isAddingVenue = FALSE
  /\ venue = Null
  /\ loadingVenue = TRUE
  /\ stations = {}
  /\ venueStations = <<BlankRow>>
  /\ saving = FALSE
  /\ selectedPlace = Null
  /\ fetching = {}
  /\ pendingSaves = {}
  /\ newCount = 0
  /\ saveCount = 0
  /\ loadedIds = {}
  /\ lastAlert = NullId
  /\ lastSave = Null

(***************************************************************************)
(* Autocomplete search of AddCityView and AddVenueView                     *)
(***************************************************************************)
\* inputs typed into a search box; "" is the cleared box
Queries == {"a", "b"}

\* getPlacePredictions calls issued in one behaviour
MaxSearches == 2
\* changes of one search box between two expiries of its timer
MaxBurst == 2

SearchForms == {"city", "venue"}

\* predictions.map(p => ({ place_id, name, formatted_address })) for an
\* input; the place found for the prefix "a" is named "b"
PredictionsFor(q) ==
  {[place_id |-> q, name |-> IF q = "a" THEN "b" ELSE q]}

\* what the callback of getPlacePredictions can be handed for an input:
\* (predictions, status), predictions being null when `some` is FALSE
Responses(q) ==
  { [status |-> "OK", some |-> TRUE, predictions |-> PredictionsFor(q)],
    [status |-> "OK", some |-> FALSE, predictions |-> {}],
    [status |-> "ZERO_RESULTS", some |-> FALSE, predictions |-> {}],
    [status |-> "UNKNOWN_ERROR", some |-> FALSE, predictions |-> {}] }

\* `status === PlacesServiceStatus.OK && predictions`
Usable(resp) == resp.status = "OK" /\ resp.some

\* an effect that sets its timer without clearing the one it set before
SetTimer_NoCleanup(form, q) == timers \cup {[form |-> form, query |-> q]}

\* the debounce effect re-runs: the cleanup of the previous run,
\* clearTimeout(handler), then setTimeout(..., 500) closing over the query
SetTimer(form, q) ==
  {t \in timers : t.form # form} \cup {[form |-> form, query |-> q]}

\* the cleanup of the debounce effect when the form unmounts
ClearTimers(form) == {t \in timers : t.form # form}

\* the callbacks of the requests of a form that has been unmounted
UnmountedReqs(form) ==
  {IF r.form = form THEN [r EXCEPT !.mounted = FALSE] ELSE r : r \in placeReqs}

citySearchVars ==
  <<newCityName, citySearchQuery, citySearchResults, citySearchStatus,
    newCityMapCenter>>

SearchInit ==
  /\ searchQuery = ""
  /\ searchResults = {}
  /\ newCityName = ""
  /\ citySearchQuery = ""
  /\ citySearchResults = {}
  /\ citySearchStatus = NullId
  /\ newCityMapCenter = [lat |-> "", lng |-> ""]
  /\ timers = {}
  /\ placeReqs = {}
  /\ searchCount = 0
  /\ burst = [f \in SearchForms |-> 0]
  /\ typed = [f \in SearchForms |-> 0]
  /\ lastResponse = Null

\* AddVenueView mounts: useState("") / useState([]), and the first run of
\* the debounce effect
VenueSearchMount ==
  /\ searchQuery' = ""
  /\ searchResults' = {}
  /\ timers' = SetTimer("venue", "")
  /\ burst' = [burst EXCEPT !["venue"] = 0]
  /\ typed' = [typed EXCEPT !["venue"] = 0]
  /\ lastResponse' = Null
  /\ UNCHANGED <<citySearchVars, placeReqs, searchCount>>

\* AddVenueView unmounts
VenueSearchUnmount ==
  /\ searchQuery' = ""
  /\ searchResults' = {}
  /\ timers' = ClearTimers("venue")
  /\ placeReqs' = UnmountedReqs("venue")
  /\ burst' = [burst EXCEPT !["venue"] = 0]
  /\ typed' = [typed EXCEPT !["venue"] = 0]
  /\ lastResponse' = Null
  /\ UNCHANGED <<citySearchVars, searchCount>>

\* setSearchQuery(q) of AddVenueView: the effect re-runs when the value changed
VenueSetSearchQuery(q) ==
  /\ searchQuery' = q
  /\ timers' = IF q # searchQuery THEN SetTimer("venue", q) ELSE timers
  /\ burst' = IF q # searchQuery THEN [burst EXCEPT !["venue"] = 0] ELSE burst
  /\ typed' = IF q # searchQuery
                THEN [typed EXCEPT !["venue"] = @ + 1] ELSE typed
  /\ lastResponse' = Null
  /\ UNCHANGED <<citySearchVars, placeReqs, searchCount>>

(***************************************************************************)
(* Actions of the admin venue forms                                        *)
(***************************************************************************)
\* ManageVenuesView: a venue card is clicked; EditVenueView mounts and its
\* two effects issue fetchStations and fetchVenue
OpenEditVenue(v) ==
  /\ ListShown
  /\ v \in DOMAIN venuesDB
  /\ selectedVenueId' = v
  /\ venue' = Null
  /\ loadingVenue' = TRUE
  /\ stations' = {}
  /\ venueStations' = <<BlankRow>>
  /\ saving' = FALSE
  /\ selectedPlace' = Null
  /\ fetching' = {"stations", "venue"}
  /\ loadedIds' = {}
  /\ lastSave' = Null
  /\ UNCHANGED <<stationsDB, venuesDB, isAddingVenue, pendingSaves, newCount,
                 saveCount, lastAlert>>
  /\ UNCHANGED nonAdminVars

\* ManageVenuesView: "Add Venue"; AddVenueView mounts (maps script loaded)
\* and its effect issues fetchUnassignedStations
OpenAddVenue ==
  /\ ListShown
  /\ isAddingVenue' = TRUE
  /\ venue' = Null
  /\ loadingVenue' = TRUE
  /\ stations' = {}
  /\ venueStations' = <<BlankRow>>
  /\ saving' = FALSE
  /\ selectedPlace' = Null
  /\ fetching' = {"stations"}
  /\ loadedIds' = {}
  /\ lastSave' = Null
  /\ VenueSearchMount
  /\ UNCHANGED <<stationsDB, venuesDB, selectedVenueId, pendingSaves, newCount,
                 saveCount, lastAlert>>
  /\ UNCHANGED nonAdminSearchVars

\* EditVenueView.fetchStations resolves: every station, assigned or not
\* AddVenueView.fetchUnassignedStations resolves: where("Assigned", "==", false)
StationsFetched ==
  /\ "stations" \in fetching
  /\ fetching' = fetching \ {"stations"}
  /\ stations' = IF EditFormShown THEN StationIds
                 ELSE {st \in StationIds : stationsDB[st] = FALSE}
  /\ lastSave' = Null
  /\ UNCHANGED <<stationsDB, venuesDB, selectedVenueId, isAddingVenue, venue,
                 loadingVenue, venueStations, saving, selectedPlace,
                 pendingSaves, newCount, saveCount, loadedIds, lastAlert>>
  /\ UNCHANGED nonAdminVars

\* the stations query rejects: the catch block only logs
StationsFetchFailed ==
  /\ "stations" \in fetching
  /\ fetching' = fetching \ {"stations"}
  /\ lastSave' = Null
  /\ UNCHANGED <<stationsDB, venuesDB, selectedVenueId, isAddingVenue, venue,
                 loadingVenue, stations, venueStations, saving, selectedPlace,
                 pendingSaves, newCount, saveCount, loadedIds, lastAlert>>
  /\ UNCHANGED nonAdminVars

\* the rows of a fetched document: venueStations is the array
\* venueData.stationDetails itself, so row i is the object stationDetails[i]
SharedRows(details) ==
  [i \in DOMAIN details |->
     [stationId |-> details[i].stationId,
      stationLocation |-> details[i].stationLocation, shared |-> i]]

\* EditVenueView.fetchVenue: getDoc resolves
VenueFetched ==
  /\ "venue" \in fetching
  /\ EditFormShown
  /\ fetching' = fetching \ {"venue"}
  /\ LET d == venuesDB[selectedVenueId]
     IN /\ venue' = [id |-> selectedVenueId,
                     stationDetails |-> d.stationDetails,
                     totalChargersAvailable |-> d.totalChargersAvailable]
        /\ venueStations' = IF Len(d.stationDetails) > 0
                              THEN SharedRows(d.stationDetails)
                              ELSE <<BlankRow>>
        /\ loadedIds' = IdsOf(d.stationDetails)
  /\ loadingVenue' = FALSE
  /\ lastSave' = Null
  /\ UNCHANGED <<stationsDB, venuesDB, selectedVenueId, isAddingVenue,
                 stations, saving, selectedPlace, pendingSaves, newCount,
                 saveCount, lastAlert>>
  /\ UNCHANGED nonAdminVars

\* the rows of the form are rendered: EditVenueView after its early returns,
\* AddVenueView in step 3
RowsShown ==
  \/ EditFormShown /\ ~loadingVenue /\ venue # Null
  \/ AddFormShown /\ selectedPlace # Null

\* handleVenueStationChange(index, field, value):
\*   updatedStations = [...venueStations]; updatedStations[index][field] = value
\* the assignment writes the row object, which venue.stationDetails may hold too
handleVenueStationChange(index, field, value) ==
  /\ RowsShown
  /\ index \in DOMAIN venueStations
  /\ venueStations[index][field] # value
  /\ venueStations' = [venueStations EXCEPT ![index][field] = value]
  /\ venue' = IF venueStations[index].shared # 0
                THEN [venue EXCEPT
                        !.stationDetails[venueStations[index].shared][field] = value]
                ELSE venue
  /\ lastSave' = Null
  /\ UNCHANGED <<stationsDB, venuesDB, selectedVenueId, isAddingVenue,
                 loadingVenue, stations, saving, selectedPlace, fetching,
                 pendingSaves, newCount, saveCount, loadedIds, lastAlert>>
  /\ UNCHANGED nonAdminVars

\* addVenueStation
addVenueStation ==
  /\ RowsShown
  /\ Len(venueStations) < MaxRows
  /\ venueStations' = Append(venueStations, BlankRow)
  /\ lastSave' = Null
  /\ UNCHANGED <<stationsDB, venuesDB, selectedVenueId, isAddingVenue, venue,
                 loadingVenue, stations, saving, selectedPlace, fetching,
                 pendingSaves, newCount, saveCount, loadedIds, lastAlert>>
  /\ UNCHANGED nonAdminVars

\* removeVenueStation(index): the button is rendered when there are 2+ rows
removeVenueStation(index) ==
  /\ RowsShown
  /\ Len(venueStations) > 1
  /\ index \in DOMAIN venueStations
  /\ venueStations' =
       [i \in 1 .. (Len(venueStations) - 1) |->
          IF i < index THEN venueStations[i] ELSE venueStations[i + 1]]
  /\ lastSave' = Null
  /\ UNCHANGED <<stationsDB, venuesDB, selectedVenueId, isAddingVenue, venue,
                 loadingVenue, stations, saving, selectedPlace, fetching,
                 pendingSaves, newCount, saveCount, loadedIds, lastAlert>>
  /\ UNCHANGED nonAdminVars

\* AddVenueView.handleSelectPlace: the getDetails callback with status OK
\* (steps 1 and 2 of the form, city and place search, lead here)
handleSelectPlace ==
  /\ AddFormShown
  /\ selectedPlace = Null
  /\ selectedPlace' = [sortOrder |-> 100, stationDetails |-> <<>>,
                       totalChargersAvailable |-> 0, totalSlotsFree |-> 8]
  /\ VenueSetSearchQuery("")
  /\ searchResults' = {}
  /\ lastSave' = Null
  /\ UNCHANGED <<stationsDB, venuesDB, selectedVenueId, isAddingVenue, venue,
                 loadingVenue, stations, venueStations, saving, fetching,
                 pendingSaves, newCount, saveCount, loadedIds, lastAlert>>
  /\ UNCHANGED nonAdminSearchVars

\* AddVenueView.handleBackToSearch
handleBackToSearch ==
  /\ AddFormShown
  /\ selectedPlace # Null
  /\ selectedPlace' = Null
  /\ VenueSetSearchQuery("")
  /\ UNCHANGED searchResults
  /\ lastSave' = Null
  /\ UNCHANGED <<stationsDB, venuesDB, selectedVenueId, isAddingVenue, venue,
                 loadingVenue, stations, venueStations, saving, fetching,
                 pendingSaves, newCount, saveCount, loadedIds, lastAlert>>
  /\ UNCHANGED nonAdminSearchVars

\* "Back to Venues" / "Cancel": onBack(); the form unmounts
FormBack ==
  /\ \/ EditFormShown /\ ~loadingVenue /\ venue # Null
     \/ AddFormShown
  /\ selectedVenueId' = NullId
  /\ isAddingVenue' = FALSE
  /\ FormReset
  /\ pendingSaves' = Unmounted(pendingSaves)
  /\ IF AddFormShown THEN VenueSearchUnmount ELSE UNCHANGED searchVars
  /\ lastSave' = Null
  /\ UNCHANGED <<stationsDB, venuesDB, newCount, saveCount, lastAlert>>
  /\ UNCHANGED nonAdminSearchVars

\* ---- saving ---------------------------------------------------------------
\* a commit that writes the venue document and drops the station updates
ApplyBatch_VenueOnly(b) ==
  /\ stationsDB' = stationsDB
  /\ venuesDB' = [v \in DOMAIN venuesDB \cup {b.venueId} |->
                    IF v = b.venueId THEN b.data ELSE venuesDB[v]]

\* the writes staged by batch.update / batch.set, applied by one commit
ApplyBatch(b) ==
  /\ stationsDB' = [st \in StationIds |->
                      IF st \in b.assign THEN TRUE
                      ELSE IF st \in b.unassign THEN FALSE
                      ELSE stationsDB[st]]
  /\ venuesDB' = [v \in DOMAIN venuesDB \cup {b.venueId} |->
                    IF v = b.venueId THEN b.data ELSE venuesDB[v]]

\* EditVenueView.handleSave: the Set built from venue.stationDetails
originalStationIds == IdsOf(venue.stationDetails)

\* handleSave / handleSaveVenue: the Set built from the non-blank rows
newStationIds == IdsOf(NonBlank(venueStations))

\* EditVenueView.handleSave up to `await batch.commit()`.  doc(db, "stations",
\* "") throws inside the try block, so a blank original id fails the save
\* before anything is committed.
EditSaveStart ==
  /\ EditFormShown /\ ~loadingVenue /\ venue # Null
  /\ ~saving
  /\ IF "" \in originalStationIds \ newStationIds
       THEN /\ lastAlert' = AlertUpdateFailed
            /\ UNCHANGED <<saving, pendingSaves, saveCount>>
       ELSE /\ SavesPending < MaxPending
            /\ SavesStarted < MaxSaves
            /\ saveCount' = saveCount + 1
            /\ saving' = TRUE
            /\ pendingSaves' = pendingSaves \cup
                 {[kind     |-> "edit",
                   venueId  |-> venue.id,
                   unassign |-> originalStationIds \ newStationIds,
                   assign   |-> newStationIds \ originalStationIds,
                   data     |-> [stationDetails |-> StoredRows(NonBlank(venueStations)),
                                 totalChargersAvailable |-> venue.totalChargersAvailable],
                   mounted  |-> TRUE,
                   loaded   |-> loadedIds]}
            /\ UNCHANGED lastAlert
  /\ lastSave' = Null
  /\ UNCHANGED <<stationsDB, venuesDB, selectedVenueId, isAddingVenue, venue,
                 loadingVenue, stations, venueStations, selectedPlace,
                 fetching, newCount, loadedIds>>
  /\ UNCHANGED nonAdminVars

\* AddVenueView.handleSaveVenue up to `await batch.commit()`
AddSaveStart ==
  /\ AddFormShown /\ selectedPlace # Null
  /\ ~saving
  /\ SavesPending < MaxPending
  /\ SavesStarted < MaxSaves
  /\ saveCount' = saveCount + 1
  /\ newCount < Len(NewVenueIds)
  /\ newCount' = newCount + 1
  /\ saving' = TRUE
  /\ pendingSaves' = pendingSaves \cup
       {[kind     |-> "add",
         venueId  |-> NewVenueIds[newCount + 1],
         unassign |-> {},
         assign   |-> IdsOf(NonBlank(venueStations)),
         data     |-> [stationDetails |-> StoredRows(NonBlank(venueStations)),
                       totalChargersAvailable |-> Len(NonBlank(venueStations))],
         mounted  |-> TRUE,
         loaded   |-> {}]}
  /\ lastSave' = Null
  /\ UNCHANGED <<stationsDB, venuesDB, selectedVenueId, isAddingVenue, venue,
                 loadingVenue, stations, venueStations, selectedPlace,
                 fetching, loadedIds, lastAlert>>
  /\ UNCHANGED nonAdminVars

\* onBack() called by a save: the setter of the form's own kind; whichever
\* form of that kind is mounted now unmounts
SaveOnBack(b) ==
  /\ selectedVenueId' = IF b.kind = "edit" THEN NullId ELSE selectedVenueId
  /\ isAddingVenue' = IF b.kind = "add" THEN FALSE ELSE isAddingVenue
  /\ IF (b.kind = "edit" /\ EditFormShown) \/ (b.kind = "add" /\ AddFormShown)
       THEN /\ FormReset
            /\ pendingSaves' = Unmounted(pendingSaves \ {b})
       ELSE /\ UNCHANGED formVars
            /\ pendingSaves' = pendingSaves \ {b}
  /\ IF b.kind = "add" /\ AddFormShown
       THEN VenueSearchUnmount ELSE UNCHANGED searchVars

\* `await batch.commit()` resolves: alert, onBack(), finally setSaving(false)
CommitOk(b) ==
  /\ b \in pendingSaves
  /\ ApplyBatch(b)
  /\ lastAlert' = IF b.kind = "edit" THEN AlertVenueUpdated ELSE AlertVenueAdded
  /\ SaveOnBack(b)
  /\ lastSave' = [b EXCEPT !.mounted = TRUE] @@ [ok |-> TRUE]
  /\ UNCHANGED <<newCount, saveCount>>
  /\ UNCHANGED nonAdminSearchVars

\* a rejected commit that has already written the venue document
CommitFailed_VenueWritten(b) ==
  /\ b \in pendingSaves
  /\ pendingSaves' = pendingSaves \ {b}
  /\ lastAlert' = IF b.kind = "edit" THEN AlertUpdateFailed ELSE AlertAddFailed
  /\ saving' = IF b.mounted THEN FALSE ELSE saving
  /\ lastSave' = [b EXCEPT !.mounted = TRUE] @@ [ok |-> FALSE]
  /\ venuesDB' = [v \in DOMAIN venuesDB \cup {b.venueId} |->
                    IF v = b.venueId THEN b.data ELSE venuesDB[v]]
  /\ UNCHANGED <<stationsDB, selectedVenueId, isAddingVenue, venue,
                 loadingVenue, stations, venueStations, selectedPlace,
                 fetching, newCount, saveCount, loadedIds>>
  /\ UNCHANGED nonAdminVars

\* `await batch.commit()` rejects: nothing of the batch is applied; alert,
\* finally setSaving(false)
CommitFailed(b) ==
  /\ b \in pendingSaves
  /\ pendingSaves' = pendingSaves \ {b}
  /\ lastAlert' = IF b.kind = "edit" THEN AlertUpdateFailed ELSE AlertAddFailed
  /\ saving' = IF b.mounted THEN FALSE ELSE saving
  /\ lastSave' = [b EXCEPT !.mounted = TRUE] @@ [ok |-> FALSE]
  /\ UNCHANGED <<stationsDB, venuesDB, selectedVenueId, isAddingVenue, venue,
                 loadingVenue, stations, venueStations, selectedPlace,
                 fetching, newCount, saveCount, loadedIds>>
  /\ UNCHANGED nonAdminVars

(***************************************************************************)
(* Admin dashboard: the top-level view and EditCityView                    *)
(***************************************************************************)
\* documents of the cities collection, and values typed into "Display Name"
CityIds == {"c1", "c2"}
CityNames == {"Austin", "Boston"}

AlertCityUpdated      == "City updated successfully!"
AlertCityUpdateFailed == "Failed to update city."

CityListShown == view = "cities" /\ selectedCityId = NullId /\ ~isAddingCity
EditCityShown == view = "cities" /\ selectedCityId # NullId

\* the state of an EditCityView that is not mounted (and of one that has just
\* mounted, before its effect)
CityFormReset ==
  /\ cityForm' = Null
  /\ loadingCityForm' = TRUE
  /\ savingCity' = FALSE
  /\ cityFetching' = FALSE

CityInit ==
  /\ view = "dashboard"
  /\ selectedCityId = NullId
  /\ isAddingCity = FALSE
  /\ citiesDB = [c \in CityIds |-> [displayName |-> "Austin"]]
  /\ cityForm = Null
  /\ loadingCityForm = TRUE
  /\ savingCity = FALSE
  /\ cityFetching = FALSE
  /\ pendingCitySaves = {}
  /\ citySaveCount = 0
  /\ lastCityAlert = NullId
  /\ lastCitySave = Null

\* the dashboard buttons "Manage Cities" / "Manage Venues": setView(v)
setView(v) ==
  /\ view = "dashboard"
  /\ v \in {"cities", "venues"}
  /\ view' = v
  /\ lastCitySave' = Null
  /\ UNCHANGED <<selectedCityId, isAddingCity, citiesDB, cityForm,
                 loadingCityForm, savingCity, cityFetching, pendingCitySaves,
                 citySaveCount, lastCityAlert>>
  /\ UNCHANGED nonCityVars

\* ManageCitiesView / ManageVenuesView "Back to Dashboard"
BackToDashboard ==
  /\ CityListShown \/ ListShown
  /\ view' = "dashboard"
  /\ lastCitySave' = Null
  /\ UNCHANGED <<selectedCityId, isAddingCity, citiesDB, cityForm,
                 loadingCityForm, savingCity, cityFetching, pendingCitySaves,
                 citySaveCount, lastCityAlert>>
  /\ UNCHANGED nonCityVars

\* ManageCitiesView: a city card is clicked; EditCityView mounts and its
\* effect issues fetchCity
OpenEditCity(c) ==
  /\ CityListShown
  /\ c \in DOMAIN citiesDB
  /\ selectedCityId' = c
  /\ cityForm' = Null
  /\ loadingCityForm' = TRUE
  /\ savingCity' = FALSE
  /\ cityFetching' = TRUE
  /\ lastCitySave' = Null
  /\ UNCHANGED <<view, isAddingCity, citiesDB, pendingCitySaves,
                 citySaveCount, lastCityAlert>>
  /\ UNCHANGED nonCityVars

\* EditCityView.fetchCity: getDoc resolves
CityFetched ==
  /\ EditCityShown
  /\ cityFetching
  /\ cityFetching' = FALSE
  /\ cityForm' = [id |-> selectedCityId,
                  displayName |-> citiesDB[selectedCityId].displayName]
  /\ loadingCityForm' = FALSE
  /\ lastCitySave' = Null
  /\ UNCHANGED <<view, selectedCityId, isAddingCity, citiesDB, savingCity,
                 pendingCitySaves, citySaveCount, lastCityAlert>>
  /\ UNCHANGED nonCityVars

\* the form of EditCityView is rendered, after its two early returns
CityFormShown == EditCityShown /\ ~loadingCityForm /\ cityForm # Null

\* EditCityView.handleInputChange: setCity({ ...city, [name]: value })
CityInputChange(value) ==
  /\ CityFormShown
  /\ value \in CityNames
  /\ value # cityForm.displayName
  /\ cityForm' = [cityForm EXCEPT !.displayName = value]
  /\ lastCitySave' = Null
  /\ UNCHANGED <<view, selectedCityId, isAddingCity, citiesDB,
                 loadingCityForm, savingCity, cityFetching, pendingCitySaves,
                 citySaveCount, lastCityAlert>>
  /\ UNCHANGED nonCityVars

\* EditCityView "Back to Cities" / "Cancel": onBack(); the form unmounts
CityFormBack ==
  /\ CityFormShown
  /\ selectedCityId' = NullId
  /\ CityFormReset
  /\ pendingCitySaves' = Unmounted(pendingCitySaves)
  /\ lastCitySave' = Null
  /\ UNCHANGED <<view, isAddingCity, citiesDB, citySaveCount, lastCityAlert>>
  /\ UNCHANGED nonCityVars

\* EditCityView.handleSave up to `await updateDoc(cityRef, dataToSave)`
CitySaveStart ==
  /\ CityFormShown
  /\ ~savingCity
  /\ SavesPending < MaxPending
  /\ SavesStarted < MaxSaves
  /\ citySaveCount' = citySaveCount + 1
  /\ savingCity' = TRUE
  /\ pendingCitySaves' = pendingCitySaves \cup
       {[cityId  |-> cityForm.id,
         data    |-> [displayName |-> cityForm.displayName],
         mounted |-> TRUE]}
  /\ lastCitySave' = Null
  /\ UNCHANGED <<view, selectedCityId, isAddingCity, citiesDB, cityForm,
                 loadingCityForm, cityFetching, lastCityAlert>>
  /\ UNCHANGED nonCityVars

\* `await updateDoc(...)` resolves: alert, onBack() (setSelectedCityId(null):
\* whichever EditCityView is mounted now unmounts), finally setSaving(false)
CityUpdateOk(b) ==
  /\ b \in pendingCitySaves
  /\ citiesDB' = [citiesDB EXCEPT ![b.cityId] = b.data]
  /\ lastCityAlert' = AlertCityUpdated
  /\ selectedCityId' = NullId
  /\ IF EditCityShown
       THEN /\ CityFormReset
            /\ pendingCitySaves' = Unmounted(pendingCitySaves \ {b})
       ELSE /\ UNCHANGED <<cityForm, loadingCityForm, savingCity, cityFetching>>
            /\ pendingCitySaves' = pendingCitySaves \ {b}
  /\ lastCitySave' = [b EXCEPT !.mounted = TRUE] @@ [ok |-> TRUE]
  /\ UNCHANGED <<view, isAddingCity, citySaveCount>>
  /\ UNCHANGED nonCityVars

\* a rejected updateDoc whose catch block also calls onBack()
CityUpdateFailed_CallsOnBack(b) ==
  /\ b \in pendingCitySaves
  /\ lastCityAlert' = AlertCityUpdateFailed
  /\ selectedCityId' = NullId
  /\ IF EditCityShown
       THEN /\ CityFormReset
            /\ pendingCitySaves' = Unmounted(pendingCitySaves \ {b})
       ELSE /\ UNCHANGED <<cityForm, loadingCityForm, savingCity, cityFetching>>
            /\ pendingCitySaves' = pendingCitySaves \ {b}
  /\ lastCitySave' = [b EXCEPT !.mounted = TRUE] @@ [ok |-> FALSE]
  /\ UNCHANGED <<view, isAddingCity, citiesDB, citySaveCount>>
  /\ UNCHANGED nonCityVars

\* `await updateDoc(...)` rejects: alert, finally setSaving(false)
CityUpdateFailed(b) ==
  /\ b \in pendingCitySaves
  /\ pendingCitySaves' = pendingCitySaves \ {b}
  /\ lastCityAlert' = AlertCityUpdateFailed
  /\ savingCity' = IF b.mounted THEN FALSE ELSE savingCity
  /\ lastCitySave' = [b EXCEPT !.mounted = TRUE] @@ [ok |-> FALSE]
  /\ UNCHANGED <<view, selectedCityId, isAddingCity, citiesDB, cityForm,
                 loadingCityForm, cityFetching, citySaveCount>>
  /\ UNCHANGED nonCityVars

(***************************************************************************)
(* Actions of the autocomplete searches                                    *)
(***************************************************************************)
AddCityShown == view = "cities" /\ isAddingCity

\* setSearchQuery(q) of AddCityView: the effect re-runs when the value changed
CitySetSearchQuery(q) ==
  /\ citySearchQuery' = q
  /\ timers' = IF q # citySearchQuery THEN SetTimer("city", q) ELSE timers
  /\ burst' = IF q # citySearchQuery
                THEN [burst EXCEPT !["city"] = 0] ELSE burst
  /\ typed' = IF q # citySearchQuery
                THEN [typed EXCEPT !["city"] = @ + 1] ELSE typed

\* ManageCitiesView "Add City": AddCityView mounts, and its debounce effect
\* runs for the first time
OpenAddCity ==
  /\ CityListShown
  /\ isAddingCity' = TRUE
  /\ newCityName' = ""
  /\ citySearchQuery' = ""
  /\ citySearchResults' = {}
  /\ citySearchStatus' = NullId
  /\ newCityMapCenter' = [lat |-> "", lng |-> ""]
  /\ timers' = SetTimer("city", "")
  /\ burst' = [burst EXCEPT !["city"] = 0]
  /\ typed' = [typed EXCEPT !["city"] = 0]
  /\ lastResponse' = Null
  /\ lastCitySave' = Null
  /\ UNCHANGED <<searchQuery, searchResults, placeReqs, searchCount>>
  /\ UNCHANGED <<view, selectedCityId, citiesDB, cityForm, loadingCityForm,
                 savingCity, cityFetching, pendingCitySaves, citySaveCount,
                 lastCityAlert>>
  /\ UNCHANGED nonCitySearchVars

\* AddCityView.handleInputChange for the field displayName
AddCityInput(value) ==
  /\ AddCityShown
  /\ value \in Queries \cup {""}
  /\ value # newCityName
  /\ typed["city"] < MaxBurst
  /\ newCityName' = value
  /\ CitySetSearchQuery(value)
  /\ lastResponse' = Null
  /\ UNCHANGED <<searchQuery, searchResults, citySearchResults,
                 citySearchStatus, newCityMapCenter, placeReqs, searchCount>>
  /\ UNCHANGED cityVars
  /\ UNCHANGED nonCitySearchVars

\* the timer of AddCityView expires (lines 276-291): a request for the query
\* the timer closed over, or setSearchResults([]) for the empty query
CityTimerFires(t) ==
  /\ t \in timers
  /\ t.form = "city"
  /\ timers' = timers \ {t}
  /\ typed' = [typed EXCEPT !["city"] = 0]
  /\ IF t.query # ""
       THEN /\ searchCount < MaxSearches
            /\ searchCount' = searchCount + 1
            /\ placeReqs' = placeReqs \cup
                 {[id |-> searchCount + 1, form |-> "city", query |-> t.query,
                   after |-> typed["city"], mounted |-> TRUE]}
            /\ burst' = [burst EXCEPT !["city"] = @ + 1]
            /\ UNCHANGED citySearchResults
       ELSE /\ citySearchResults' = {}
            /\ UNCHANGED <<searchCount, placeReqs, burst>>
  /\ lastResponse' = Null
  /\ UNCHANGED <<searchQuery, searchResults, newCityName, citySearchQuery,
                 citySearchStatus, newCityMapCenter>>
  /\ UNCHANGED cityVars
  /\ UNCHANGED nonCitySearchVars

\* the getPlacePredictions callback of AddCityView (lines 279-287)
CityPredictionsReturned(r, resp) ==
  /\ r \in placeReqs
  /\ r.form = "city"
  /\ resp \in Responses(r.query)
  /\ placeReqs' = placeReqs \ {r}
  /\ IF r.mounted
       THEN /\ citySearchResults' = IF Usable(resp) THEN resp.predictions ELSE {}
            /\ citySearchStatus' = resp.status
       ELSE UNCHANGED <<citySearchResults, citySearchStatus>>
  /\ lastResponse' = [id |-> r.id, form |-> "city", mounted |-> r.mounted,
                      usable |-> Usable(resp)]
  /\ UNCHANGED <<searchQuery, searchResults, newCityName, citySearchQuery,
                 newCityMapCenter, timers, searchCount, burst, typed>>
  /\ UNCHANGED cityVars
  /\ UNCHANGED nonCitySearchVars

\* AddCityView.handleSelectCityFromSearch: a result is clicked and getDetails
\* calls back with status OK
handleSelectCityFromSearch(place) ==
  /\ AddCityShown
  /\ place \in citySearchResults
  /\ newCityName' = place.name
  /\ newCityMapCenter' = [lat |-> "1", lng |-> "1"]
  /\ citySearchResults' = {}
  /\ CitySetSearchQuery(place.name)
  /\ lastResponse' = Null
  /\ UNCHANGED <<searchQuery, searchResults, citySearchStatus, placeReqs,
                 searchCount>>
  /\ UNCHANGED cityVars
  /\ UNCHANGED nonCitySearchVars

\* AddCityView "Back to Cities" / "Cancel": onBack() is
\* () => { setIsAddingCity(false); setView("cities"); }; the form unmounts
AddCityBack ==
  /\ AddCityShown
  /\ isAddingCity' = FALSE
  /\ view' = "cities"
  /\ newCityName' = ""
  /\ citySearchQuery' = ""
  /\ citySearchResults' = {}
  /\ citySearchStatus' = NullId
  /\ newCityMapCenter' = [lat |-> "", lng |-> ""]
  /\ timers' = ClearTimers("city")
  /\ placeReqs' = UnmountedReqs("city")
  /\ burst' = [burst EXCEPT !["city"] = 0]
  /\ typed' = [typed EXCEPT !["city"] = 0]
  /\ lastResponse' = Null
  /\ lastCitySave' = Null
  /\ UNCHANGED <<searchQuery, searchResults, searchCount>>
  /\ UNCHANGED <<selectedCityId, citiesDB, cityForm, loadingCityForm,
                 savingCity, cityFetching, pendingCitySaves, citySaveCount,
                 lastCityAlert>>
  /\ UNCHANGED nonCitySearchVars

\* AddVenueView: the search box of step 2 changes, setSearchQuery(value)
VenueSearchInput(value) ==
  /\ AddFormShown
  /\ selectedPlace = Null
  /\ value \in Queries \cup {""}
  /\ value # searchQuery
  /\ typed["venue"] < MaxBurst
  /\ VenueSetSearchQuery(value)
  /\ UNCHANGED searchResults
  /\ UNCHANGED adminVars
  /\ UNCHANGED nonAdminSearchVars

\* the timer of AddVenueView expires (lines 721-732)
VenueTimerFires(t) ==
  /\ t \in timers
  /\ t.form = "venue"
  /\ timers' = timers \ {t}
  /\ typed' = [typed EXCEPT !["venue"] = 0]
  /\ IF t.query # ""
       THEN /\ searchCount < MaxSearches
            /\ searchCount' = searchCount + 1
            /\ placeReqs' = placeReqs \cup
                 {[id |-> searchCount + 1, form |-> "venue", query |-> t.query,
                   after |-> typed["venue"], mounted |-> TRUE]}
            /\ burst' = [burst EXCEPT !["venue"] = @ + 1]
            /\ UNCHANGED searchResults
       ELSE /\ searchResults' = {}
            /\ UNCHANGED <<searchCount, placeReqs, burst>>
  /\ lastResponse' = Null
  /\ UNCHANGED <<searchQuery, citySearchVars>>
  /\ UNCHANGED adminVars
  /\ UNCHANGED nonAdminSearchVars

\* the getPlacePredictions callback of AddVenueView (lines 724-728): it has
\* no else branch
VenuePredictionsReturned(r, resp) ==
  /\ r \in placeReqs
  /\ r.form = "venue"
  /\ resp \in Responses(r.query)
  /\ placeReqs' = placeReqs \ {r}
  /\ searchResults' = IF r.mounted /\ Usable(resp)
                        THEN resp.predictions ELSE searchResults
  /\ lastResponse' = [id |-> r.id, form |-> "venue", mounted |-> r.mounted,
                      usable |-> Usable(resp)]
  /\ UNCHANGED <<searchQuery, citySearchVars, timers, searchCount, burst, typed>>
  /\ UNCHANGED adminVars
  /\ UNCHANGED nonAdminSearchVars

AllResponses == UNION {Responses(q) : q \in Queries}

SearchNext ==
  \/ \E v \in {"cities", "venues"} : setView(v)
  \/ BackToDashboard
  \/ OpenAddCity
  \/ \E value \in Queries \cup {""} : AddCityInput(value)
  \/ \E t \in timers : CityTimerFires(t)
  \/ \E r \in placeReqs, resp \in AllResponses : CityPredictionsReturned(r, resp)
  \/ \E place \in citySearchResults : handleSelectCityFromSearch(place)
  \/ AddCityBack
  \/ OpenAddVenue
  \/ \E value \in Queries \cup {""} : VenueSearchInput(value)
  \/ \E t \in timers : VenueTimerFires(t)
  \/ \E r \in placeReqs, resp \in AllResponses : VenuePredictionsReturned(r, resp)
  \/ handleSelectPlace
  \/ handleBackToSearch
  \/ FormBack

AdminNext ==
  \/ \E v \in {"cities", "venues"} : setView(v)
  \/ BackToDashboard
  \/ \E c \in CityIds : OpenEditCity(c)
  \/ CityFetched
  \/ \E value \in CityNames : CityInputChange(value)
  \/ CityFormBack
  \/ CitySaveStart
  \/ \E b \in pendingCitySaves : CityUpdateOk(b)
  \/ \E b \in pendingCitySaves : CityUpdateFailed(b)
  \/ \E v \in DOMAIN venuesDB : OpenEditVenue(v)
  \/ OpenAddVenue
  \/ StationsFetched
  \/ StationsFetchFailed
  \/ VenueFetched
  \/ \E i \in 1 .. MaxRows, st \in StationIds \cup {""} :
       /\ st \in stations \cup {""}
       /\ handleVenueStationChange(i, "stationId", st)
  \/ \E i \in 1 .. MaxRows, loc \in Locations :
       handleVenueStationChange(i, "stationLocation", loc)
  \/ addVenueStation
  \/ \E i \in 1 .. MaxRows : removeVenueStation(i)
  \/ handleSelectPlace
  \/ handleBackToSearch
  \/ FormBack
  \/ EditSaveStart
  \/ AddSaveStart
  \/ \E b \in pendingSaves : CommitOk(b)
  \/ \E b \in pendingSaves : CommitFailed(b)



(***************************************************************************)
(* Router: the route table of App and the pages it renders                 *)
(***************************************************************************)
\* paths a visitor may enter: "/", "/:citySlug", "/map/:citySlug", "/admin",
\* "/admin/login"
Paths ==
  {<<>>, <<"admin">>, <<"admin", "login">>}
    \cup {<<s>> : s \in CitySlugs} \cup {<<"map", s>> : s \in CitySlugs}

\* ProtectedRoute: `return <Outlet />;` (the session check is commented out)
ProtectedRoute(authenticated) == "Outlet"

\* <Routes>: the element rendered for a path; a static segment outranks a
\* dynamic one, and a path no route matches renders nothing
RenderedPage(path, authenticated) ==
  IF path = <<>> THEN "HomePage"
  ELSE IF path = <<"admin", "login">> THEN "AdminLoginPage"
  ELSE IF path = <<"admin">>
    THEN IF ProtectedRoute(authenticated) = "Outlet"
           THEN "AdminDashboardPage" ELSE "Navigate"
  ELSE IF Len(path) = 1 THEN "PublicMapPage"
  ELSE "none"

\* useParams().citySlug of the page rendered for the path
RouteCitySlug(path) == IF Len(path) = 1 THEN path[1] ELSE NullId

RouteInit ==
  /\ location = <<>>
  /\ history = <<>>
  /\ session = FALSE

\* a navigation that pushes a history entry
Push(path) ==
  /\ Len(history) < MaxHistory
  /\ history' = Append(history, location)
  /\ location' = path

\* the visitor opens a URL
VisitUrl(path) ==
  /\ path \in Paths
  /\ path # location
  /\ Push(path)
  /\ UNCHANGED session
  /\ UNCHANGED nonRouteVars

\* HomePage: <Link to={`/map/${city.slug}`}> is clicked
ClickCityLink(slug) ==
  /\ RenderedPage(location, session) = "HomePage"
  /\ slug \in DOMAIN CityDocs
  /\ Push(<<"map", slug>>)
  /\ UNCHANGED session
  /\ UNCHANGED nonRouteVars

\* the browser's back button
GoBack ==
  /\ history # <<>>
  /\ location' = history[Len(history)]
  /\ history' = SubSeq(history, 1, Len(history) - 1)
  /\ UNCHANGED session
  /\ UNCHANGED nonRouteVars

\* AdminLoginPage: a sign-in succeeds
SignIn ==
  /\ RenderedPage(location, session) = "AdminLoginPage"
  /\ ~session
  /\ session' = TRUE
  /\ UNCHANGED <<location, history>>
  /\ UNCHANGED nonRouteVars

\* AdminDashboardPage.handleLogout: signOut(auth).then(() => navigate("/admin/login"))
handleLogout ==
  /\ RenderedPage(location, session) = "AdminDashboardPage"
  /\ session' = FALSE
  /\ Push(<<"admin", "login">>)
  /\ UNCHANGED nonRouteVars

RouteNext ==
  \/ \E slug \in CitySlugs : ClickCityLink(slug)
  \/ handleLogout
  \/ SignIn
  \/ GoBack
  \/ \E path \in Paths : VisitUrl(path)

(***************************************************************************)
(* Pure functions: coercion of the stored counts of a venue document       *)
(***************************************************************************)
\* JavaScript numbers, in tenths, and NaN
Num(n) == [nan |-> FALSE, tenths |-> n]
NaN == [nan |-> TRUE, tenths |-> 0]

\* values a document field may hold: absent (undefined), null, a number, a
\* string
Absent == [t |-> "undefined"]
JsNull == [t |-> "null"]
NumV(n) == [t |-> "number", n |-> Num(n)]
StrV(s) == [t |-> "string", s |-> s]

\* stored values of totalChargersAvailable / totalSlotsFree
RawCounts ==
  {Absent, JsNull, NumV(0), NumV(30), NumV(-20), NumV(25),
   StrV("3"), StrV("-2"), StrV(""), StrV("abc")}

\* Number(s) for the strings above: a decimal literal gives its value, the
\* empty string gives 0, anything else gives NaN
StringToNumber(s) ==
  IF s = "3" THEN Num(30)
  ELSE IF s = "-2" THEN Num(-20)
  ELSE IF s = "" THEN Num(0)
  ELSE NaN

\* x ?? 0
OrZero(x) == IF x.t \in {"undefined", "null"} THEN NumV(0) ELSE x

\* Number(x) for a number or a string
Number(x) == IF x.t = "number" THEN x.n ELSE StringToNumber(x.s)

\* Number(data.totalChargersAvailable ?? 0), Number(data.totalSlotsFree ?? 0)
NormalizeCounts(data) ==
  [totalChargersAvailable |-> Number(OrZero(data.totalChargersAvailable)),
   totalSlotsFree         |-> Number(OrZero(data.totalSlotsFree))]

PureInit ==
  /\ input = Null
  /\ output = Null

\* a venue document with any stored counts is about to be normalized
CountsInit ==
  /\ input \in [totalChargersAvailable : RawCounts, totalSlotsFree : RawCounts]
  /\ output = Null

\* snapshot.docs.map: the Venue fields built from the document
ApplyNormalizeCounts ==
  /\ output = Null
  /\ output' = NormalizeCounts(input)
  /\ UNCHANGED input
  /\ UNCHANGED nonPureVars

(***************************************************************************)
(* Pure functions: ManageVenuesView groups the fetched venues by city      *)
(***************************************************************************)
\* number of venue documents the admin list fetches
MaxGroupVenues == 3

\* values of the citySlug field of a venue document ("": absent or empty);
\* no city has the slug "b"
VenueCitySlugs == {"", "a", "b"}

\* ids of the fetched venue documents, in venueName order
GroupVenueIds == <<"g1", "g2", "g3", "g4">>

\* the city lists the page may have loaded, in displayName order; the slug of
\* a city is the free text typed into the "Slug (URL path)" input
CityLists ==
  { <<>>,
    <<[slug |-> "a", displayName |-> "Austin"]>>,
    <<[slug |-> "a", displayName |-> "Austin"],
      [slug |-> "unassigned", displayName |-> "Pending"]>>,
    <<[slug |-> "a", displayName |-> ""]>> }

UnassignedKey == "unassigned"
UnassignedHeading == "Unassigned Venues"

\* the keys of groupedVenues in the order String.prototype sort gives them
KeyOrder == <<"a", "b", "unassigned">>

\* venue.citySlug || 'unassigned'
GroupKey(v) == IF v.citySlug = "" THEN UnassignedKey ELSE v.citySlug

\* groupedVenues: venues.reduce pushes each venue to the array of its key
groupedVenues(vs) ==
  [k \in {GroupKey(vs[i]) : i \in DOMAIN vs} |->
     SelectSeq(vs, LAMBDA v : GroupKey(v) = k)]

\* cities.find(c => c.slug === citySlug)
RECURSIVE FindCityFrom(_, _, _)
FindCityFrom(cs, slug, i) ==
  IF i > Len(cs) THEN Null
  ELSE IF cs[i].slug = slug THEN cs[i]
  ELSE FindCityFrom(cs, slug, i + 1)

\* city?.displayName || 'Unassigned Venues'
GroupHeading(cs, key) ==
  LET c == FindCityFrom(cs, key, 1)
  IN IF c = Null \/ c.displayName = "" THEN UnassignedHeading ELSE c.displayName

\* Object.keys(groupedVenues).sort().map(...): one section per key, with its
\* heading and its venue cards
RenderGroups(vs, cs) ==
  LET g    == groupedVenues(vs)
      keys == SelectSeq(KeyOrder, LAMBDA k : k \in DOMAIN g)
  IN [n \in DOMAIN keys |->
        [heading |-> GroupHeading(cs, keys[n]), venues |-> g[keys[n]]]]

\* the venue lists fetchVenues may store: up to MaxGroupVenues documents
GroupVenueLists ==
  UNION {[1 .. n -> VenueCitySlugs] : n \in 0 .. MaxGroupVenues}

\* ManageVenuesView has fetched venues and cities and is about to render
GroupsInit ==
  /\ \E slugs \in GroupVenueLists, cs \in CityLists :
       input = [venues |-> [i \in DOMAIN slugs |->
                              [id |-> GroupVenueIds[i], citySlug |-> slugs[i]]],
                cities |-> cs]
  /\ output = Null

\* ManageVenuesView renders the grouped list
ApplyRenderGroups ==
  /\ output = Null
  /\ output' = [sections |-> RenderGroups(input.venues, input.cities)]
  /\ UNCHANGED input
  /\ UNCHANGED nonPureVars

(***************************************************************************)
(* MapView (the overlay-marker variant, src/src/App.tsx) as a component    *)
(* driven by the props PublicMapPage passes to it                          *)
(***************************************************************************)
\* normalized venues as MapView receives them: lat: Number(data.lat ?? 0),
\* lng: Number(data.lng ?? 0); "m0" is a document without coordinates
MapVenues ==
  << [id |-> "m1", lat |-> 1, lng |-> 1],
     [id |-> "m0", lat |-> 0, lng |-> 0],
     [id |-> "m2", lat |-> 2, lng |-> 3] >>

\* the venue lists a load may deliver: the sub-lists of MapVenues
MapVenueLists ==
  {SelectSeq(MapVenues, LAMBDA v : v.id \in S) :
     S \in SUBSET {MapVenues[i].id : i \in DOMAIN MapVenues}}

\* city.mapCenter of the city document
CityCenter == [lat |-> 5, lng |-> 5]

\* const fallbackCenter (the marker variant, src/src/MapView.tsx)
fallbackCenter == [lat |-> 34, lng |-> -118]

\* no call on the map object in this step
NoCall == [op |-> "none", points |-> {}]

\* { lat: v.lat, lng: v.lng }
LatLng(v) == [lat |-> v.lat, lng |-> v.lng]

MapViewInit ==
  /\ propVenues = <<>>
  /\ propSelectedId = NullId
  /\ propSelectedVenue = Null
  /\ propCityCenter = Null
  /\ propIsLoaded = FALSE
  /\ mapRef = FALSE
  /\ initialLoadRef = TRUE
  /\ mapCall = NoCall

\* `if (!isLoaded || !cityCenter) return <div>Loading Map...</div>;` otherwise
\* the GoogleMap element is rendered
GoogleMapRendered(il, center) == il /\ center # Null

\* the pan effect, run after a render in which selectedVenue changed to sv
PanEffect(sv) ==
  /\ mapCall' = IF mapRef /\ sv # Null /\ ~initialLoadRef
                  THEN [op |-> "panTo", points |-> {LatLng(sv)}]
                  ELSE NoCall
  /\ initialLoadRef' = IF sv # Null THEN FALSE ELSE initialLoadRef

\* GoogleMap onLoad, called when the map instance is created
onLoad ==
  /\ mapRef' = TRUE
  /\ mapCall' =
       IF Len(propVenues) = 1
         THEN [op |-> "panTo", points |-> {LatLng(propVenues[1])}]
       ELSE IF Len(propVenues) > 1
         THEN [op |-> "fitBounds",
               points |-> {LatLng(propVenues[i]) : i \in DOMAIN propVenues}]
       ELSE NoCall

\* the parent re-renders with isLoaded true (the maps script has loaded)
MvScriptLoaded ==
  /\ ~propIsLoaded
  /\ propIsLoaded' = TRUE
  /\ IF GoogleMapRendered(TRUE, propCityCenter)
       THEN onLoad
       ELSE UNCHANGED <<mapRef, mapCall>>
  /\ UNCHANGED <<propVenues, propSelectedId, propSelectedVenue, propCityCenter,
                 initialLoadRef>>
  /\ UNCHANGED nonMapViewVars

\* the parent re-renders with the loaded city's mapCenter
MvCityLoaded ==
  /\ propCityCenter = Null
  /\ propCityCenter' = CityCenter
  /\ IF GoogleMapRendered(propIsLoaded, CityCenter)
       THEN onLoad
       ELSE UNCHANGED <<mapRef, mapCall>>
  /\ UNCHANGED <<propVenues, propSelectedId, propSelectedVenue, propIsLoaded,
                 initialLoadRef>>
  /\ UNCHANGED nonMapViewVars

\* the parent re-renders with a newly loaded venue list: selectedVenue is
\* looked up again, and a venue found is a new object, so the effect runs
MvVenuesLoaded(vs) ==
  /\ vs \in MapVenueLists
  /\ vs # propVenues
  /\ propVenues' = vs
  /\ propSelectedVenue' = Find(vs, propSelectedId)
  /\ IF propSelectedVenue' # Null \/ propSelectedVenue # Null
       THEN PanEffect(propSelectedVenue')
       ELSE /\ mapCall' = NoCall
            /\ UNCHANGED initialLoadRef
  /\ UNCHANGED <<propSelectedId, propCityCenter, propIsLoaded, mapRef>>
  /\ UNCHANGED nonMapViewVars

\* the parent re-renders after setSelectedId(id): a card or a marker clicked
MvSelect(i) ==
  /\ i \in DOMAIN propVenues
  /\ propVenues[i].id # propSelectedId
  /\ propSelectedId' = propVenues[i].id
  /\ propSelectedVenue' = propVenues[i]
  /\ PanEffect(propVenues[i])
  /\ UNCHANGED <<propVenues, propCityCenter, propIsLoaded, mapRef>>
  /\ UNCHANGED nonMapViewVars

\* the parent re-renders after setSelectedId(null)
MvDeselect ==
  /\ propSelectedId # NullId
  /\ propSelectedId' = NullId
  /\ propSelectedVenue' = Null
  /\ IF propSelectedVenue # Null
       THEN PanEffect(Null)
       ELSE /\ mapCall' = NoCall
            /\ UNCHANGED initialLoadRef
  /\ UNCHANGED <<propVenues, propCityCenter, propIsLoaded, mapRef>>
  /\ UNCHANGED nonMapViewVars

MapViewNext ==
  \/ MvScriptLoaded
  \/ MvCityLoaded
  \/ \E vs \in MapVenueLists : MvVenuesLoaded(vs)
  \/ \E i \in 1 .. Len(MapVenues) : MvSelect(i)
  \/ MvDeselect

\* the overlay markers rendered: one OverlayView per venue, at its lat/lng
OverlayPositions ==
  IF GoogleMapRendered(propIsLoaded, propCityCenter)
    THEN {LatLng(propVenues[i]) : i \in DOMAIN propVenues}
    ELSE {}

\* the marker variant (src/src/MapView.tsx): the center prop of GoogleMap
MarkerViewCenter(sv, center) ==
  IF sv # Null /\ sv.lat # 0 /\ sv.lng # 0 THEN LatLng(sv)
  ELSE IF center # Null THEN center ELSE fallbackCenter

\* the marker variant: once its script has loaded, one Marker per venue, at
\* its lat/lng
MarkerViewPositions(vs, il) ==
  IF il THEN {LatLng(vs[i]) : i \in DOMAIN vs} ELSE {}

(***************************************************************************)
(* The add-venue flow of src/src/AdminDashboardPage.tsx: AddVenueView with  *)
(* a multiple select of stations, saved by addDoc                          *)
(***************************************************************************)
\* the state of an AddVenueView that is not mounted or has just mounted
DashFormReset ==
  /\ stations' = {}
  /\ selectedStations' = {}
  /\ saving' = FALSE
  /\ selectedPlace' = Null
  /\ fetching' = {}

\* ManageVenuesView onAddVenue: AddVenueView mounts; with the maps script
\* loaded its effect issues fetchStations
DashOpenAddVenue ==
  /\ view = "venues"
  /\ ~isAddingVenue
  /\ isAddingVenue' = TRUE
  /\ stations' = {}
  /\ selectedStations' = {}
  /\ saving' = FALSE
  /\ selectedPlace' = Null
  /\ fetching' = {"stations"}
  /\ lastSave' = Null
  /\ UNCHANGED <<stationsDB, venuesDB, selectedVenueId, venue, loadingVenue,
                 venueStations, pendingSaves, newCount, saveCount, loadedIds,
                 lastAlert>>
  /\ UNCHANGED nonDashVars
  /\ UNCHANGED cityVars

\* fetchStations resolves: where("Assigned", "==", false)
DashStationsFetched ==
  /\ isAddingVenue
  /\ "stations" \in fetching
  /\ fetching' = fetching \ {"stations"}
  /\ stations' = {st \in StationIds : stationsDB[st] = FALSE}
  /\ lastSave' = Null
  /\ UNCHANGED <<stationsDB, venuesDB, selectedVenueId, isAddingVenue, venue,
                 loadingVenue, venueStations, saving, selectedPlace,
                 pendingSaves, newCount, saveCount, loadedIds, lastAlert,
                 selectedStations>>
  /\ UNCHANGED nonDashVars
  /\ UNCHANGED cityVars

\* fetchStations rejects: the catch block only logs
DashStationsFetchFailed ==
  /\ isAddingVenue
  /\ "stations" \in fetching
  /\ fetching' = fetching \ {"stations"}
  /\ lastSave' = Null
  /\ UNCHANGED <<stationsDB, venuesDB, selectedVenueId, isAddingVenue, venue,
                 loadingVenue, stations, venueStations, saving, selectedPlace,
                 pendingSaves, newCount, saveCount, loadedIds, lastAlert,
                 selectedStations>>
  /\ UNCHANGED nonDashVars
  /\ UNCHANGED cityVars

\* handleSelectPlace: the getDetails callback with status OK (steps 1 and 2
\* of the form, city and place search, lead here)
DashSelectPlace ==
  /\ isAddingVenue
  /\ selectedPlace = Null
  /\ selectedPlace' = [sortOrder |-> 100, stationIds |-> {},
                       totalChargersAvailable |-> 0, totalSlotsFree |-> 8]
  /\ lastSave' = Null
  /\ UNCHANGED <<stationsDB, venuesDB, selectedVenueId, isAddingVenue, venue,
                 loadingVenue, stations, venueStations, saving, fetching,
                 pendingSaves, newCount, saveCount, loadedIds, lastAlert,
                 selectedStations>>
  /\ UNCHANGED nonDashVars
  /\ UNCHANGED cityVars

\* handleStationSelect: the selected options of the multiple select
handleStationSelect(selectedOptions) ==
  /\ isAddingVenue
  /\ selectedPlace # Null
  /\ selectedOptions \subseteq stations
  /\ selectedOptions # selectedStations
  /\ selectedStations' = selectedOptions
  /\ lastSave' = Null
  /\ UNCHANGED <<stationsDB, venuesDB, selectedVenueId, isAddingVenue, venue,
                 loadingVenue, stations, venueStations, saving, selectedPlace,
                 fetching, pendingSaves, newCount, saveCount, loadedIds,
                 lastAlert>>
  /\ UNCHANGED nonDashVars
  /\ UNCHANGED cityVars

\* handleBackToSearch: setSelectedPlace(null); setSelectedStations([])
DashBackToSearch ==
  /\ isAddingVenue
  /\ selectedPlace # Null
  /\ selectedPlace' = Null
  /\ selectedStations' = {}
  /\ lastSave' = Null
  /\ UNCHANGED <<stationsDB, venuesDB, selectedVenueId, isAddingVenue, venue,
                 loadingVenue, stations, venueStations, saving, fetching,
                 pendingSaves, newCount, saveCount, loadedIds, lastAlert>>
  /\ UNCHANGED nonDashVars
  /\ UNCHANGED cityVars

\* "Back to Venues": onBack(); the form unmounts
DashFormBack ==
  /\ isAddingVenue
  /\ isAddingVenue' = FALSE
  /\ DashFormReset
  /\ pendingSaves' = Unmounted(pendingSaves)
  /\ lastSave' = Null
  /\ UNCHANGED <<stationsDB, venuesDB, selectedVenueId, venue, loadingVenue,
                 venueStations, newCount, saveCount, loadedIds, lastAlert>>
  /\ UNCHANGED nonDashVars
  /\ UNCHANGED cityVars

\* handleSave up to `await addDoc(collection(db, "venues"), dataToSave)`:
\* the only write of the save is the venue document
DashSaveStart ==
  /\ isAddingVenue
  /\ selectedPlace # Null
  /\ ~saving
  /\ SavesPending < MaxPending
  /\ SavesStarted < MaxSaves
  /\ saveCount' = saveCount + 1
  /\ newCount < Len(NewVenueIds)
  /\ newCount' = newCount + 1
  /\ saving' = TRUE
  /\ pendingSaves' = pendingSaves \cup
       {[kind    |-> "addDoc",
         venueId |-> NewVenueIds[newCount + 1],
         data    |-> [stationIds |-> selectedStations,
                      totalChargersAvailable |-> Cardinality(selectedStations)],
         mounted |-> TRUE]}
  /\ lastSave' = Null
  /\ UNCHANGED <<stationsDB, venuesDB, selectedVenueId, isAddingVenue, venue,
                 loadingVenue, stations, venueStations, selectedPlace,
                 fetching, loadedIds, lastAlert, selectedStations>>
  /\ UNCHANGED nonDashVars
  /\ UNCHANGED cityVars

\* `await addDoc(...)` resolves: alert, onBack(), finally setSaving(false)
AddDocOk(b) ==
  /\ b \in pendingSaves
  /\ venuesDB' = [v \in DOMAIN venuesDB \cup {b.venueId} |->
                    IF v = b.venueId THEN b.data ELSE venuesDB[v]]
  /\ lastAlert' = AlertVenueAdded
  /\ isAddingVenue' = FALSE
  /\ IF isAddingVenue
       THEN /\ DashFormReset
            /\ pendingSaves' = Unmounted(pendingSaves \ {b})
       ELSE /\ UNCHANGED <<stations, selectedStations, saving, selectedPlace,
                           fetching>>
            /\ pendingSaves' = pendingSaves \ {b}
  /\ lastSave' = Null
  /\ UNCHANGED <<stationsDB, selectedVenueId, venue, loadingVenue,
                 venueStations, newCount, saveCount, loadedIds>>
  /\ UNCHANGED nonDashVars
  /\ UNCHANGED cityVars

\* `await addDoc(...)` rejects: alert, finally setSaving(false)
AddDocFailed(b) ==
  /\ b \in pendingSaves
  /\ pendingSaves' = pendingSaves \ {b}
  /\ lastAlert' = AlertAddFailed
  /\ saving' = IF b.mounted THEN FALSE ELSE saving
  /\ lastSave' = Null
  /\ UNCHANGED <<stationsDB, venuesDB, selectedVenueId, isAddingVenue, venue,
                 loadingVenue, stations, venueStations, selectedPlace,
                 fetching, newCount, saveCount, loadedIds, selectedStations>>
  /\ UNCHANGED nonDashVars
  /\ UNCHANGED cityVars

\* the dashboard as constructed, over any Assigned flags of the stations
\* collection and no venue documents
DashInit ==
  /\ stationsDB \in [StationIds -> BOOLEAN]
  /\ venuesDB = [v \in {} |-> Null]
  /\ selectedVenueId = NullId
  /\ isAddingVenue = FALSE
  /\ venue = Null
  /\ loadingVenue = TRUE
  /\ stations = {}
  /\ venueStations = <<BlankRow>>
  /\ saving = FALSE
  /\ selectedPlace = Null
  /\ fetching = {}
  /\ pendingSaves = {}
  /\ newCount = 0
  /\ saveCount = 0
  /\ loadedIds = {}
  /\ lastAlert = NullId
  /\ lastSave = Null
  /\ selectedStations = {}

DashNext ==
  \/ \E v \in {"cities", "venues"} : setView(v)
  \/ BackToDashboard
  \/ DashOpenAddVenue
  \/ DashStationsFetched
  \/ DashStationsFetchFailed
  \/ DashSelectPlace
  \/ \E S \in SUBSET StationIds : handleStationSelect(S)
  \/ DashBackToSearch
  \/ DashFormBack
  \/ DashSaveStart
  \/ \E b \in pendingSaves : AddDocOk(b)
  \/ \E b \in pendingSaves : AddDocFailed(b)

\* the state shared by every specification: all components as constructed
OtherInit ==
  /\ MapInit /\ AdminInit /\ selectedStations = {} /\ CityInit /\ SearchInit
  /\ RouteInit /\ MapViewInit

Init == OtherInit /\ PureInit

Next ==
  \/ \E s \in CitySlugs : Navigate(s)
  \/ \E r \in cityReqs : CityLoaded(r)
  \/ \E r \in cityReqs : CityLoadFailed(r)
  \/ \E r \in venueReqs : VenuesLoaded(r)
  \/ \E r \in venueReqs : VenuesLoadFailed(r)
  \/ \E i \in DOMAIN venues : ClickVenueCard(i)
  \/ \E i \in DOMAIN venues : ClickMarker(i)
  \/ ClearSelection
  \/ ClickMapBackground
  \/ MapsScriptLoaded
  \/ \E v \in VenueIds, d \in LiveDetails : LiveDetailsOk(v, d)
  \/ \E v \in VenueIds : LiveDetailsNotOk(v)

Spec == Init /\ [][Next]_vars

SpecAdmin == Init /\ [][AdminNext]_vars

SpecSearch == Init /\ [][SearchNext]_vars

SpecRoutes == Init /\ [][RouteNext]_vars

InitCounts == OtherInit /\ CountsInit

SpecCounts == InitCounts /\ [][ApplyNormalizeCounts]_vars

InitGroups == OtherInit /\ GroupsInit

SpecMapView == Init /\ [][MapViewNext]_vars

InitAddFlow ==
  /\ MapInit /\ DashInit /\ CityInit /\ SearchInit
  /\ RouteInit /\ MapViewInit /\ PureInit

SpecAddFlow == InitAddFlow /\ [][DashNext]_vars

SpecGroups == InitGroups /\ [][ApplyRenderGroups]_vars

(***************************************************************************)
(* Properties of the public map page                                       *)
(***************************************************************************)
\* the request of the current effect instance of a loader
CurrentReq == [slug |-> citySlug, cancelled |-> FALSE]

\* C1: a response that arrives successfully for a superseded slug is
\* discarded: that step writes neither the city, the venue list nor a loading
\* flag; and every step that does write the city or the venue list, or clears
\* a loading flag, completes the request of the current slug with its data.
C1_StaleResponseDiscarded ==
  [][ /\ lastEvent' \in {"cityStale", "venuesStale"}
           => UNCHANGED <<city, venues, loadingCity, loadingVenues>>
      /\ (city' # city \/ (loadingCity /\ ~loadingCity'))
           => /\ CurrentReq \in cityReqs /\ CurrentReq \notin cityReqs'
              /\ citySlug' = citySlug
              /\ city' # city => city'.slug = citySlug
      /\ (venues' # venues \/ (loadingVenues /\ ~loadingVenues'))
           => /\ CurrentReq \in venueReqs /\ CurrentReq \notin venueReqs'
              /\ citySlug' = citySlug
              /\ venues' # venues
                   => \A i \in DOMAIN venues' : venues'[i].citySlug = citySlug
    ]_vars

\* C1 witness: the venue response of a superseded slug has just arrived while
\* the newer request is still loading, and nothing was written.
C1_Witness ==
  /\ lastEvent = "venuesStale"
  /\ navCount > 0
  /\ loadingVenues
  /\ venues = <<>>

\* C2 (as claimed): after a navigation the visible city and venue list are
\* those of the current slug, or the loader of the current slug is loading.
C2_VisibleDataIsCurrentSlug ==
  /\ (city # Null /\ ~loadingCity) => city.slug = citySlug
  /\ ~loadingVenues => \A i \in DOMAIN venues : venues[i].citySlug = citySlug

\* C3: the active venue is the first venue of the current list whose id is
\* selectedId, and none when selectedId is null or names no venue of the list.
C3_ActiveVenueDerived ==
  LET hits == {i \in DOMAIN venues : venues[i].id = selectedId}
  IN IF selectedId = NullId \/ hits = {}
       THEN selectedVenue = Null
       ELSE selectedVenue = venues[CHOOSE i \in hits : \A j \in hits : i <= j]

\* C3 witness: a venue id is still selected after the venue list was replaced
\* by another city's list, and the active venue is none.
C3_Witness ==
  /\ selectedId # NullId
  /\ venues # <<>>
  /\ \A i \in DOMAIN venues : venues[i].id # selectedId
  /\ selectedVenue = Null

\* C4 (as claimed): live data is only ever held for the venue that was
\* selected when its request was issued and that is still selected.
C4_LiveDataOnlyForRequestingVenue ==
  liveVenueData # Null => (selectedId # NullId /\ liveFor = selectedId)

\* C10: a failed city load (not found, or storage error) or a failed venue
\* load leaves the stored city and venue list, the other loader's error and
\* loading flag, and the selection unchanged.
C10_FailureLeavesDataUntouched ==
  [][ /\ lastEvent' \in {"cityNotFound", "cityFailed"}
           => UNCHANGED <<city, venues, venueError, loadingVenues, selectedId,
                          selectedVenue, liveVenueData, loadingLive>>
      /\ lastEvent' = "venuesFailed"
           => UNCHANGED <<city, venues, cityError, loadingCity, selectedId,
                          selectedVenue, liveVenueData, loadingLive>>
    ]_vars

\* C10 witness: the venue load of the current slug has just failed and the
\* city and venue list stored before are still there.
C10_Witness ==
  /\ lastEvent = "venuesFailed"
  /\ venueError = ErrVenuesLoad
  /\ ~loadingVenues
  /\ venues # <<>>
  /\ city # Null

(***************************************************************************)
(* Properties of the admin venue forms                                     *)
(***************************************************************************)
\* the save whose commit settles in this step is of the given kind
Settled(kind, ok) ==
  /\ pendingSaves' # pendingSaves
  /\ lastSave' # Null
  /\ lastSave'.kind = kind
  /\ lastSave'.ok = ok

\* every station written by the batch carries the staged flag, every other
\* station keeps its flag
FlagsApplied(b) ==
  \A st \in StationIds :
    stationsDB'[st] = IF st \in b.assign THEN TRUE
                      ELSE IF st \in b.unassign THEN FALSE
                      ELSE stationsDB[st]

\* C5: an edit save changes storage all at once or not at all: storage changes
\* only in the step where a commit resolves, a resolved edit commit writes the
\* venue document together with every staged Assigned flag, and a rejected
\* edit commit leaves every venue document and every Assigned flag as it was.
C5_EditSaveAllOrNothing ==
  [][ /\ (stationsDB' # stationsDB \/ venuesDB' # venuesDB)
           => (lastSave' # Null /\ lastSave'.ok)
      /\ Settled("edit", TRUE)
           => (venuesDB'[lastSave'.venueId] = lastSave'.data /\ FlagsApplied(lastSave'))
      /\ Settled("edit", FALSE)
           => (stationsDB' = stationsDB /\ venuesDB' = venuesDB) ]_vars

\* C5 witness: an edit commit was rejected whose batch held a station-flag
\* update and a changed venue document
C5_Witness ==
  /\ lastSave # Null
  /\ lastSave.kind = "edit"
  /\ ~lastSave.ok
  /\ lastSave.assign \cup lastSave.unassign # {}
  /\ venuesDB[lastSave.venueId] # lastSave.data

\* C6: after a successful edit save, with original = the station ids of the
\* venue as loaded and new = the station ids of the saved non-blank rows:
\* original minus new is unassigned, new minus original is assigned, every
\* other station is not written, and the stored stationDetails are the
\* non-blank rows.
C6_EditSaveFlagsFollowLoadedIds ==
  [][ Settled("edit", TRUE) =>
        LET original == lastSave'.loaded
            new      == IdsOf(lastSave'.data.stationDetails)
        IN /\ \A st \in StationIds :
                stationsDB'[st] = IF st \in new \ original THEN TRUE
                                  ELSE IF st \in original \ new THEN FALSE
                                  ELSE stationsDB[st]
           /\ venuesDB'[lastSave'.venueId].stationDetails = lastSave'.data.stationDetails
    ]_vars

\* the station is referenced by the stationDetails of some venue
Referenced(st) ==
  \E v \in DOMAIN venuesDB : st \in IdsOf(venuesDB[v].stationDetails)

\* C7: every station's Assigned flag agrees with whether some venue's
\* stationDetails references the station.
C7_AssignedIffReferenced ==
  \A st \in StationIds : stationsDB[st] <=> Referenced(st)

\* the (venue, row) positions of storage that reference the station
ReferencesTo(st) ==
  {<<v, i>> \in (DOMAIN venuesDB) \X (1 .. MaxRows) :
     /\ i \in DOMAIN venuesDB[v].stationDetails
     /\ venuesDB[v].stationDetails[i].stationId = st}

\* C8: each station is referenced by at most one venue, and at most once
\* within that venue.
C8_StationHeldAtMostOnce ==
  \A st \in StationIds : Cardinality(ReferencesTo(st)) <= 1

\* C9: a resolved add-venue commit creates exactly the new venue document,
\* sets Assigned = true for every station of its stationDetails, writes no
\* other station and sets none to false; a rejected one changes nothing.
C9_AddSaveIsPureAddition ==
  [][ /\ Settled("add", TRUE) =>
           LET b == lastSave'
           IN /\ b.venueId \notin DOMAIN venuesDB
              /\ DOMAIN venuesDB' = DOMAIN venuesDB \cup {b.venueId}
              /\ venuesDB'[b.venueId] = b.data
              /\ \A v \in DOMAIN venuesDB : venuesDB'[v] = venuesDB[v]
              /\ \A st \in StationIds :
                   stationsDB'[st] = IF st \in IdsOf(b.data.stationDetails)
                                       THEN TRUE ELSE stationsDB[st]
      /\ Settled("add", FALSE)
           => (stationsDB' = stationsDB /\ venuesDB' = venuesDB) ]_vars

\* C9 witness: a venue that was added holds a station, and the station that
\* was unassigned at the start is now assigned
C9_Witness ==
  /\ lastSave # Null
  /\ lastSave.kind = "add"
  /\ lastSave.ok
  /\ IdsOf(lastSave.data.stationDetails) = {"s2"}
  /\ stationsDB["s2"]
  /\ lastSave.venueId \in DOMAIN venuesDB

(***************************************************************************)
(* Properties of the two loaders taken together                            *)
(***************************************************************************)
\* the step completes the request of the current effect instance without a
\* failure being handled
CompletesOk(reqs) ==
  /\ CurrentReq \in reqs
  /\ CurrentReq \notin reqs'
  /\ citySlug' = citySlug
  /\ lastEvent' = "other"

\* C11: the two loads fail independently: a successful venue load of the
\* current slug stores that slug's venues whatever the city loader holds, a
\* successful city load stores the city whatever the venue loader holds, and
\* a failure of one loader leaves the other loader's error message alone.
C11_LoadsFailIndependently ==
  [][ /\ CompletesOk(venueReqs)
           => /\ venues' = NormalizeVenues(QueryVenues(citySlug), FreshGen(venues))
              /\ ~loadingVenues'
              /\ UNCHANGED <<city, cityError, loadingCity>>
      /\ CompletesOk(cityReqs)
           => /\ city' = NormalizeCity(QueryCity(citySlug)[1], citySlug)
              /\ UNCHANGED <<venues, venueError, loadingVenues>>
      /\ lastEvent' \in {"cityNotFound", "cityFailed"} => venueError' = venueError
      /\ lastEvent' = "venuesFailed" => cityError' = cityError
      /\ (cityError' # cityError /\ cityError' # NullId)
           => lastEvent' \in {"cityNotFound", "cityFailed"}
      /\ (venueError' # venueError /\ venueError' # NullId)
           => lastEvent' = "venuesFailed"
    ]_vars

\* C11 witness: the city of the current slug was not found, and the venue
\* load of that slug has stored its venues with no venue error
C11_Witness ==
  /\ citySlug = "b"
  /\ cityError = ErrCityNotFound
  /\ ~loadingCity /\ ~loadingVenues
  /\ venueError = NullId
  /\ venues # <<>>
  /\ \A i \in DOMAIN venues : venues[i].citySlug = "b"

\* const anyLoading = loadingVenues || loadingCity
anyLoading == loadingVenues \/ loadingCity

\* C12: anyLoading is true exactly when the city request or the venue request
\* of the current slug is still in flight, whatever superseded requests are
\* still in flight or have completed.
C12_AnyLoadingIsCurrentInFlight ==
  /\ loadingCity <=> CurrentReq \in cityReqs
  /\ loadingVenues <=> CurrentReq \in venueReqs
  /\ anyLoading <=> (CurrentReq \in cityReqs \/ CurrentReq \in venueReqs)

\* C12 witness: after a route change both loads of the current slug have
\* completed and the flag is false while superseded requests of both
\* loaders are still in flight
C12_Witness ==
  /\ navCount > 0
  /\ ~anyLoading
  /\ cityReqs # {} /\ venueReqs # {}
  /\ (cityError # NullId \/ venueError # NullId)

(***************************************************************************)
(* Properties of the detail panel                                          *)
(***************************************************************************)
\* a ?? b on numbers
Coalesce(a, b) == IF a # Undef THEN a ELSE b

\* liveVenueData?.field
LiveField(field) == IF liveVenueData = Null THEN Undef ELSE liveVenueData[field]

\* the rating prop with the stored value taken before the live one
displayedRating_StoredFirst ==
  Coalesce(selectedVenue.rating, Coalesce(LiveField("rating"), 0))

\* StarRating rating={liveVenueData?.rating ?? selectedVenue.rating ?? 0}
displayedRating ==
  Coalesce(LiveField("rating"), Coalesce(selectedVenue.rating, 0))

\* reviewCount={liveVenueData?.user_ratings_total ?? selectedVenue.user_ratings_total ?? 0}
displayedReviewCount ==
  Coalesce(LiveField("user_ratings_total"),
           Coalesce(selectedVenue.user_ratings_total, 0))

\* the value the precedence rule asks for: live when present and defined,
\* else stored, else 0
Preferred(field) ==
  IF liveVenueData # Null /\ liveVenueData[field] # Undef THEN liveVenueData[field]
  ELSE IF selectedVenue[field] # Undef THEN selectedVenue[field]
  ELSE 0

\* C13: for the selected venue the displayed rating and review count are the
\* live value when live data is present and the field is defined, otherwise
\* the venue's stored value, otherwise 0.
C13_LiveValueWins ==
  selectedVenue # Null =>
    /\ displayedRating = Preferred("rating")
    /\ displayedReviewCount = Preferred("user_ratings_total")

\* C13 witness: venue v1 (stored rating 4.0) is selected, the live result of
\* its own request holds 4.5, and 4.5 is displayed
C13_Witness ==
  /\ selectedVenue # Null
  /\ selectedVenue.id = "v1"
  /\ selectedVenue.rating = 40
  /\ liveFor = "v1"
  /\ liveVenueData # Null
  /\ liveVenueData.rating = 45
  /\ displayedRating = 45

(***************************************************************************)
(* Properties of the router                                                *)
(***************************************************************************)
\* C14 (as claimed): a bare one-segment city path is never where a navigation
\* comes to rest (it is redirected to /map/:citySlug), and /map/:citySlug
\* renders the public map page for that slug.
C14_BarePathRedirectsToMap ==
  /\ ~(Len(location) = 1 /\ location[1] \in CitySlugs)
  /\ (Len(location) = 2 /\ location[1] = "map")
       => /\ RenderedPage(location, session) = "PublicMapPage"
          /\ RouteCitySlug(location) = location[2]

\* C15 (as claimed): the admin dashboard is rendered only while a session
\* exists, and a visitor without one does not stay on /admin.
C15_AdminBehindSession ==
  /\ RenderedPage(location, session) = "AdminDashboardPage" => session
  /\ location = <<"admin">> => session

(***************************************************************************)
(* Properties of the venue normalization                                   *)
(***************************************************************************)
\* the number a stored value stands for, when it is numeric-like
NumericLike(x) ==
  \/ x.t = "number"
  \/ x.t = "string" /\ x.s \in {"3", "-2"}

NumericValue(x) == IF x.t = "number" THEN x.n ELSE StringToNumber(x.s)

IsNonNegativeInteger(v) == ~v.nan /\ v.tenths >= 0 /\ v.tenths % 10 = 0

\* C16 (as claimed): whatever is stored, the normalized totalChargersAvailable
\* and totalSlotsFree are non-negative integers, equal to the numeric value
\* of a numeric-like stored value and 0 when the coercion fails.
C16_CountsAreNonNegativeIntegers ==
  output # Null =>
    \A f \in {"totalChargersAvailable", "totalSlotsFree"} :
      /\ IsNonNegativeInteger(output[f])
      /\ IF NumericLike(input[f]) THEN output[f] = NumericValue(input[f])
         ELSE output[f] = Num(0)

C18_SelectClearsLiveData ==
  [][ (selectedId' # selectedId /\ selectedId' # NullId)
        => liveVenueData' = Null ]_vars

\* C19 (as claimed): while a getDetails call for the selected venue is in
\* flight, loadingLive is true, so the open/closed indicator shows the
\* loading placeholder and no value.
C19_PlaceholderWhileInFlight ==
  (selectedVenue # Null /\ liveReqs[selectedVenue.id] > 0) => loadingLive

\* C20 (as claimed): after a resolved add-venue or edit-venue commit, the
\* stored totalChargersAvailable of the venue written is the number of
\* entries of its stored stationDetails.
C20_TotalIsStationCount ==
  [][ (lastSave' # Null /\ lastSave'.ok) =>
        LET d == venuesDB'[lastSave'.venueId]
        IN d.totalChargersAvailable = Len(d.stationDetails) ]_vars

\* C27 (as claimed): a city or venue load that fails after its slug was
\* superseded leaves the error messages as they were.
C27_StaleFailureKeepsError ==
  [][ /\ \A r \in cityReqs :
           (r.cancelled /\ CityLoadFailed(r)) => cityError' = cityError
      /\ \A r \in venueReqs :
           (r.cancelled /\ VenuesLoadFailed(r)) => venueError' = venueError
    ]_vars

\* the location list container carries the class `hidden` (desktop sidebar)
ListHidden == selectedId # NullId

\* `{selectedVenue && (...)}`: the expanded view of the selected venue
DetailShown == selectedVenue # Null

\* C28 (as claimed): in the desktop sidebar exactly one of the venue list and
\* the detail panel is shown: the list is hidden exactly when a detail panel
\* is displayed.
C28_ListXorDetail == ListHidden <=> DetailShown

(***************************************************************************)
(* Properties of the admin venue list                                      *)
(***************************************************************************)
\* the cards of the rendered sections, as <<section, position>> pairs
GroupCards == {<<s, p>> \in (DOMAIN output.sections) \X (1 .. MaxGroupVenues) :
                 p \in DOMAIN output.sections[s].venues}

\* a venue whose citySlug is empty or is the slug of no loaded city
IsOrphan(v) ==
  \/ v.citySlug = ""
  \/ \A i \in DOMAIN input.cities : input.cities[i].slug # v.citySlug

\* C24 (as claimed): the rendered grouping is a partition of the fetched
\* venues (each venue is exactly one card), and every venue whose citySlug is
\* empty or matches no loaded city is a card of a section headed
\* "Unassigned Venues".
C24_GroupingPartitionsVenues ==
  output # Null =>
    /\ \A i \in DOMAIN input.venues :
         Cardinality({c \in GroupCards :
                        output.sections[c[1]].venues[c[2]] = input.venues[i]}) = 1
    /\ Cardinality(GroupCards) = Len(input.venues)
    /\ \A c \in GroupCards :
         IsOrphan(output.sections[c[1]].venues[c[2]])
           => output.sections[c[1]].heading = UnassignedHeading

(***************************************************************************)
(* Properties of MapView                                                   *)
(***************************************************************************)
\* the coordinates of a venue document that stores none
ZeroZero == [lat |-> 0, lng |-> 0]

\* C25 (as claimed): the point lat 0, lng 0 of a venue without coordinates
\* is never a marker position, a point of the fitted bounds, a pan target or
\* the map center, in either MapView.
C25_ZeroZeroNeverUsed ==
  /\ ZeroZero \notin OverlayPositions
  /\ ZeroZero \notin mapCall.points
  /\ ZeroZero \notin MarkerViewPositions(propVenues, propIsLoaded)
  /\ MarkerViewCenter(propSelectedVenue, propCityCenter) # ZeroZero

\* C26 (as claimed): once the map has loaded, every change of the selected
\* venue to a venue pans the map to it.
C26_SelectionAfterLoadPans ==
  [][ (mapRef /\ propSelectedVenue' # Null
         /\ propSelectedVenue' # propSelectedVenue)
        => mapCall' = [op |-> "panTo", points |-> {LatLng(propSelectedVenue')}]
    ]_vars

(***************************************************************************)
(* Properties of the add-venue flow of src/src/AdminDashboardPage.tsx      *)
(***************************************************************************)
\* the stations a venue document saved by the flow holds
SavedStationIds ==
  UNION {venuesDB[v].stationIds : v \in DOMAIN venuesDB}

\* C30 (as claimed): the stations offered by the add-venue form are those
\* stored with Assigned == false when it loaded, every station of a saved
\* venue has Assigned == true, and no station of a saved venue is offered by
\* the form.
C30_SavedStationsAreAssigned ==
  /\ stations \in {{}, {st \in StationIds : stationsDB[st] = FALSE}}
  /\ \A st \in SavedStationIds : stationsDB[st] = TRUE
  /\ stations \cap SavedStationIds = {}

\* C29: when a save that was started by a form the operator has since left
\* completes successfully, its onBack() leaves the editor that is open now
\* open and leaves the top-level view where the operator is.
C29_LateSaveKeepsView ==
  [][ /\ \A b \in pendingSaves :
           (~b.mounted /\ lastSave' = [b EXCEPT !.mounted = TRUE] @@ [ok |-> TRUE])
             => UNCHANGED <<selectedVenueId, isAddingVenue, view>>
      /\ \A b \in pendingCitySaves :
           (~b.mounted
              /\ lastCitySave' = [b EXCEPT !.mounted = TRUE] @@ [ok |-> TRUE])
             => UNCHANGED <<selectedCityId, isAddingCity, view>>
    ]_vars

\* C21: when the write of an admin save is rejected (the updateDoc of a city
\* edit, the batch commit of a venue edit or of a new venue), the failure
\* alert of that form is raised, no onBack navigation happens (the view and
\* the open form stay as they are), the values held by the form are
\* unchanged, and the saving flag of the form that started the save is false
\* afterwards.
C21_FailedSaveKeepsForm ==
  [][ /\ \A b \in pendingSaves :
           (b \notin pendingSaves'
              /\ lastSave' = [b EXCEPT !.mounted = TRUE] @@ [ok |-> FALSE])
             => /\ lastAlert' = IF b.kind = "edit" THEN AlertUpdateFailed
                                                   ELSE AlertAddFailed
                /\ UNCHANGED <<view, selectedVenueId, isAddingVenue>>
                /\ UNCHANGED <<venue, venueStations, selectedPlace, stations>>
                /\ b.mounted => ~saving'
      /\ \A b \in pendingCitySaves :
           (b \notin pendingCitySaves'
              /\ lastCitySave' = [b EXCEPT !.mounted = TRUE] @@ [ok |-> FALSE])
             => /\ lastCityAlert' = AlertCityUpdateFailed
                /\ UNCHANGED <<view, selectedCityId, isAddingCity>>
                /\ UNCHANGED cityForm
                /\ b.mounted => ~savingCity'
    ]_vars

\* the update of an edited city has just been rejected: the form is still
\* shown, still holds the edited name, and is ready for another Save
C21_Witness ==
  /\ lastCitySave # Null
  /\ ~lastCitySave.ok
  /\ lastCityAlert = AlertCityUpdateFailed
  /\ CityFormShown
  /\ cityForm.id = lastCitySave.cityId
  /\ cityForm.displayName # citiesDB[cityForm.id].displayName
  /\ ~savingCity

TimersOf(form) == {t \in timers : t.form = form}

\* C22: the autocomplete search is debounced.  Each search form has at most
\* one timer pending; a change of the query of a form on screen replaces the
\* pending timer by one for the new query; a prediction request is issued only by the expiry of
\* the timer of the query the box still holds; and at most one request is
\* issued between two changes of the query, so a burst of keystrokes issues
\* at most one.
C22_SearchIsDebounced ==
  /\ [](\A f \in SearchForms : Cardinality(TimersOf(f)) <= 1 /\ burst[f] <= 1)
  /\ [][ /\ (AddFormShown' /\ searchQuery' # searchQuery)
           => {t \in timers' : t.form = "venue"}
                = {[form |-> "venue", query |-> searchQuery']}
         /\ (AddCityShown' /\ citySearchQuery' # citySearchQuery)
           => {t \in timers' : t.form = "city"}
                = {[form |-> "city", query |-> citySearchQuery']}
         /\ \A r \in placeReqs' :
              r.id \notin {x.id : x \in placeReqs}
                => /\ r.query = IF r.form = "venue" THEN searchQuery
                                                    ELSE citySearchQuery
                   /\ UNCHANGED <<searchQuery, citySearchQuery>>
                   /\ [form |-> r.form, query |-> r.query] \in timers \ timers'
       ]_vars

\* two changes of the venue search box in a row, then the one request of the
\* behaviour so far, for the query typed last
C22_Witness ==
  /\ searchCount = 1
  /\ \E r \in placeReqs :
       r.form = "venue" /\ r.after >= 2 /\ r.query = searchQuery /\ r.mounted
  /\ TimersOf("venue") = {}

\* C23: when a prediction request of a mounted search form completes with a
\* status other than OK or without predictions, the results that form shows
\* are empty afterwards, in the add-city and in the add-venue search.
C23_FailedSearchClearsResults ==
  [][ \A r \in placeReqs :
        (r.mounted /\ lastResponse' # Null /\ lastResponse'.id = r.id
           /\ ~lastResponse'.usable)
          => IF r.form = "city" THEN citySearchResults' = {}
                                ELSE searchResults' = {}
    ]_vars

====
